---- MODULE Spec2Model ----
(***************************************************************************)
(* Many-to-many shortest-path engine on a multi-level partition (MLD):     *)
(* src/engine/routing_algorithms/many_to_many_mld.cpp.                     *)
(*                                                                         *)
(* The facade (graph, partition, cell metric), the phantom nodes and the   *)
(* query heap are declared outside that file; they are modelled here from  *)
(* their documented contracts.  Node ids, phantom indices, rows and        *)
(* columns are 0-based as in the source; TLA+ sequences are 1-based, so an *)
(* array a[i] of the source is read as a[i + 1].                           *)
(***************************************************************************)
EXTENDS Integers, Sequences, FiniteSets, TLC

(***************************************************************************)
(* Sentinels (util/typedefs.hpp).  SPECIAL_NODEID is UINT_MAX in the       *)
(* source; it takes part in no arithmetic and is represented by the        *)
(* largest id the checker can hold.  INVALID_EDGE_DISTANCE is the largest  *)
(* double: adding a path length to it leaves it unchanged (AddDistance).   *)
(***************************************************************************)
INVALID_EDGE_WEIGHT == 2147483647
MAXIMAL_EDGE_DURATION == 2147483647
INVALID_EDGE_DISTANCE == 2147483646
SPECIAL_NODEID == 2147483645
INVALID_LEVEL_ID == 255

FORWARD_DIRECTION == TRUE
REVERSE_DIRECTION == FALSE

(***************************************************************************)
(* Bounds of the model.                                                    *)
(***************************************************************************)
\* phantom offsets along a segment range over 0..MaxOffset
MaxOffset == 1
\* source_indices and target_indices have between 1 and MaxLen entries
MaxLen == 3

(***************************************************************************)
(* Small helpers.                                                          *)
(***************************************************************************)
Min2(a, b) == IF a <= b THEN a ELSE b

LexLess(w1, d1, w2, d2) == w1 < w2 \/ (w1 = w2 /\ d1 < d2)

\* the lexicographically smallest (weight, duration) pair of a non-empty set
LexMin(S) == CHOOSE p \in S : \A q \in S : ~LexLess(q[1], q[2], p[1], p[2])

Unreachable == <<INVALID_EDGE_WEIGHT, MAXIMAL_EDGE_DURATION>>

Reverse(s) == [i \in 1..Len(s) |-> s[Len(s) + 1 - i]]

\* the elements of a set of naturals in increasing order
RECURSIVE SortedSeq(_)
SortedSeq(S) ==
    IF S = {} THEN <<>>
    ELSE LET m == CHOOSE x \in S : \A y \in S : x <= y
         IN <<m>> \o SortedSeq(S \ {m})

(***************************************************************************)
(* The graph facade.  A base (directed) edge u -> v is stored twice, as    *)
(* the facade stores it: at u with the forward bit and at v with the       *)
(* backward bit.                                                           *)
(***************************************************************************)
BaseEdge(u, v, w, d) == [from |-> u, to |-> v, weight |-> w, duration |-> d]

EdgeStore(base) ==
    [k \in 1..(2 * Len(base)) |->
        LET e == base[(k + 1) \div 2]
        IN IF k % 2 = 1
           THEN [source |-> e.from, target |-> e.to, weight |-> e.weight,
                 duration |-> e.duration, forward |-> TRUE, backward |-> FALSE]
           ELSE [source |-> e.to, target |-> e.from, weight |-> e.weight,
                 duration |-> e.duration, forward |-> FALSE, backward |-> TRUE]]

\* A phantom site: the segment (node) of each half, and the roles it may play.
Site(f, r, src, tgt) == [fwd |-> f, rev |-> r, source |-> src, target |-> tgt]

(***************************************************************************)
(* The facades of the model.  cells[l][n + 1] is the cell of node n at     *)
(* level l (1 <= l < levels); level 0 is the base graph.  length[n + 1] is *)
(* the geometry length of node n.                                          *)
(***************************************************************************)
\* a triangle with a return edge, one cell; 0 -> 2 ties with 0 -> 1 -> 2 on
\* weight and wins on duration
Triangle ==
    [nodes |-> 3, levels |-> 2,
     base |-> << BaseEdge(0, 1, 10, 10), BaseEdge(1, 2, 5, 5),
                 BaseEdge(0, 2, 15, 12), BaseEdge(2, 0, 7, 7) >>,
     cells |-> << <<0, 0, 0>> >>,
     excluded |-> {},
     length |-> <<100, 50, 70>>,
     sites |-> << Site(0, SPECIAL_NODEID, TRUE, TRUE),
                  Site(0, SPECIAL_NODEID, TRUE, TRUE),
                  Site(2, SPECIAL_NODEID, TRUE, TRUE) >>]

\* three cells in a row, the middle one crossed by a shortcut 1 -> 3; node 5 is
\* excluded and lies on a cheaper way 0 -> 5 -> 4
Corridor ==
    [nodes |-> 6, levels |-> 2,
     base |-> << BaseEdge(0, 1, 5, 5), BaseEdge(1, 2, 4, 4), BaseEdge(2, 3, 4, 6),
                 BaseEdge(3, 4, 5, 5), BaseEdge(4, 0, 6, 6),
                 BaseEdge(0, 5, 4, 4), BaseEdge(5, 4, 4, 4) >>,
     cells |-> << <<0, 1, 1, 1, 2, 0>> >>,
     excluded |-> {5},
     length |-> <<100, 40, 40, 40, 60, 30>>,
     sites |-> << Site(0, SPECIAL_NODEID, TRUE, TRUE),
                  Site(4, SPECIAL_NODEID, TRUE, TRUE),
                  Site(2, SPECIAL_NODEID, TRUE, FALSE) >>]

\* a square of two-way streets (every edge has a twin of equal weight and
\* duration), two cells; the excluded node 4 offers a cheaper way 0 - 4 - 1
Square ==
    [nodes |-> 5, levels |-> 2,
     base |-> << BaseEdge(0, 1, 4, 4), BaseEdge(1, 0, 4, 4),
                 BaseEdge(1, 2, 6, 6), BaseEdge(2, 1, 6, 6),
                 BaseEdge(2, 3, 4, 4), BaseEdge(3, 2, 4, 4),
                 BaseEdge(3, 0, 7, 7), BaseEdge(0, 3, 7, 7),
                 BaseEdge(0, 4, 1, 1), BaseEdge(4, 0, 1, 1),
                 BaseEdge(4, 1, 1, 1), BaseEdge(1, 4, 1, 1) >>,
     cells |-> << <<0, 0, 1, 1, 0>> >>,
     excluded |-> {4},
     length |-> <<40, 40, 40, 40, 40>>,
     sites |-> << Site(0, SPECIAL_NODEID, TRUE, TRUE),
                  Site(2, SPECIAL_NODEID, TRUE, TRUE),
                  Site(1, 3, TRUE, TRUE) >>]

\* three levels: level-2 cells {0,1,2,3} and {4,5}; the level-1 cell {1,2,3}
\* is crossed by the shortcut 1 -> 3 in searches around node 0
Tower ==
    [nodes |-> 6, levels |-> 3,
     base |-> << BaseEdge(4, 1, 5, 5), BaseEdge(1, 2, 4, 4), BaseEdge(2, 3, 4, 4),
                 BaseEdge(1, 3, 10, 7), BaseEdge(3, 0, 5, 5),
                 BaseEdge(0, 5, 6, 6), BaseEdge(5, 4, 4, 4) >>,
     cells |-> << <<0, 1, 1, 1, 2, 3>>, <<0, 0, 0, 0, 1, 1>> >>,
     excluded |-> {},
     length |-> <<100, 40, 40, 40, 60, 30>>,
     sites |-> << Site(4, SPECIAL_NODEID, TRUE, TRUE),
                  Site(0, SPECIAL_NODEID, TRUE, TRUE),
                  Site(5, 2, FALSE, TRUE) >>]

\* the direct way 0 -> 2 is the lightest and by far the slowest; the way over
\* node 1 is heavier and quick
Detour ==
    [nodes |-> 3, levels |-> 2,
     base |-> << BaseEdge(0, 2, 5, 20), BaseEdge(0, 1, 3, 3),
                 BaseEdge(1, 2, 3, 3), BaseEdge(2, 0, 4, 4) >>,
     cells |-> << <<0, 0, 0>> >>,
     excluded |-> {},
     length |-> <<50, 30, 30>>,
     sites |-> << Site(0, SPECIAL_NODEID, TRUE, TRUE),
                  Site(1, SPECIAL_NODEID, TRUE, TRUE),
                  Site(2, SPECIAL_NODEID, TRUE, TRUE) >>]

\* both halves of the phantom on nodes 0 and 1 lead to node 2, the forward
\* half over the heavier edge; node 4 lies far behind
Fork ==
    [nodes |-> 5, levels |-> 2,
     base |-> << BaseEdge(0, 2, 9, 9), BaseEdge(1, 2, 3, 3),
                 BaseEdge(2, 3, 3, 3), BaseEdge(3, 4, 10, 10) >>,
     cells |-> << <<0, 0, 0, 0, 0>> >>,
     excluded |-> {},
     length |-> <<30, 30, 90, 30, 100>>,
     sites |-> << Site(0, 1, TRUE, TRUE),
                  Site(3, SPECIAL_NODEID, TRUE, TRUE),
                  Site(4, SPECIAL_NODEID, TRUE, TRUE) >>]

Facades == << Triangle, Corridor, Square, Tower, Detour, Fork >>

Nodes(g) == 0..(g.nodes - 1)

ExcludeNode(g, node) == node \in g.excluded

GetAdjacentEdgeRange(g, node) ==
    SelectSeq(EdgeStore(g.base), LAMBDA e : e.source = node)

(***************************************************************************)
(* MultiLevelPartition.                                                    *)
(***************************************************************************)
GetNumberOfLevels(g) == g.levels

GetCell(g, l, node) == g.cells[l][node + 1]

\* the largest level at which the two nodes lie in different cells; 0 when
\* they share their level-1 cell
GetHighestDifferentLevel(g, a, b) ==
    LET diff == {l \in 1..(g.levels - 1) : GetCell(g, l, a) # GetCell(g, l, b)}
    IN IF diff = {} THEN 0 ELSE CHOOSE l \in diff : \A m \in diff : m <= l

\* the edges of a node that cross a cell boundary of the level (all of them at
\* level 0)
GetBorderEdgeRange(g, level, node) ==
    SelectSeq(GetAdjacentEdgeRange(g, node),
              LAMBDA e : GetHighestDifferentLevel(g, node, e.target) >= level)

(***************************************************************************)
(* Shortest paths by (weight, duration), lexicographically, over the base  *)
(* edges that stay inside a set of nodes.  Used for the cell metric (the   *)
(* set is a cell) and for the reference matrix (the set is the graph).     *)
(***************************************************************************)
\* A table holds one <<weight, duration>> pair per ordered pair of nodes, the
\* pair of (u, v) at PairIndex(g, u, v).
PairIndex(g, u, v) == u * g.nodes + v + 1

\* the table as a tuple of values
Stored(table) == table \o <<>>

\* the best pair over walks u ~> v of at most k edges inside S
RECURSIVE WalksUpTo(_, _, _)
WalksUpTo(g, S, k) ==
    IF k = 0
    THEN Stored([i \in 1..(g.nodes * g.nodes) |->
                    IF (i - 1) \div g.nodes = (i - 1) % g.nodes
                       /\ (i - 1) % g.nodes \in S
                    THEN <<0, 0>> ELSE Unreachable])
    ELSE LET D == WalksUpTo(g, S, k - 1)
         IN Stored([i \in 1..(g.nodes * g.nodes) |->
                LET u == (i - 1) \div g.nodes
                    v == (i - 1) % g.nodes
                IN IF u \notin S \/ v \notin S THEN Unreachable
                   ELSE LexMin({D[i]} \cup
                       {<<D[PairIndex(g, u, g.base[e].from)][1] + g.base[e].weight,
                          D[PairIndex(g, u, g.base[e].from)][2] + g.base[e].duration>> :
                            e \in {j \in DOMAIN g.base :
                                     /\ g.base[j].to = v
                                     /\ g.base[j].from \in S
                                     /\ D[PairIndex(g, u, g.base[j].from)] # Unreachable}})])

ShortestInside(g, S) == WalksUpTo(g, S, Cardinality(S))

\* the nodes of the cell of a node at a level that routing may use
CellNodes(g, l, node) ==
    {n \in Nodes(g) : GetCell(g, l, n) = GetCell(g, l, node)} \ g.excluded

\* the node sequence of the best path u ~> v inside S (u # v, v reachable)
RECURSIVE PathInside(_, _, _, _, _)
PathInside(g, S, D, u, v) ==
    IF u = v THEN <<u>>
    ELSE LET preds == {i \in DOMAIN g.base :
                         /\ g.base[i].to = v
                         /\ g.base[i].from \in S
                         /\ D[PairIndex(g, u, g.base[i].from)] # Unreachable
                         /\ D[PairIndex(g, u, g.base[i].from)][1] + g.base[i].weight = D[PairIndex(g, u, v)][1]
                         /\ D[PairIndex(g, u, g.base[i].from)][2] + g.base[i].duration = D[PairIndex(g, u, v)][2]}
             i == CHOOSE j \in preds : \A m \in preds : j <= m
         IN Append(PathInside(g, S, D, u, g.base[i].from), v)

(***************************************************************************)
(* CellStorage and CellMetric, customized from the graph: a shortcut       *)
(* carries the weight and duration of the best path inside its cell.       *)
(***************************************************************************)
\* boundary nodes entered from outside the cell, in id order
GetSourceNodes(g, l, node) ==
    SortedSeq({n \in CellNodes(g, l, node) :
                 \E i \in DOMAIN g.base :
                    /\ g.base[i].to = n
                    /\ GetCell(g, l, g.base[i].from) # GetCell(g, l, n)})

\* boundary nodes with an edge leaving the cell, in id order
GetDestinationNodes(g, l, node) ==
    SortedSeq({n \in CellNodes(g, l, node) :
                 \E i \in DOMAIN g.base :
                    /\ g.base[i].from = n
                    /\ GetCell(g, l, g.base[i].to) # GetCell(g, l, n)})

InSeq(x, s) == \E i \in DOMAIN s : s[i] = x

\* CellMetric[gi][l][n + 1]: the table of the best pairs inside the level-l
\* cell of node n of facade gi
CellMetric ==
    Stored([gi \in DOMAIN Facades |->
        Stored([l \in 1..(Facades[gi].levels - 1) |->
            Stored([k \in 1..Facades[gi].nodes |->
                ShortestInside(Facades[gi], CellNodes(Facades[gi], l, k - 1))])])])

\* the row of shortcuts leaving a source node: one <<weight, duration>> entry
\* per destination node; empty for a node that is no source node
GetOutWeight(gi, l, node) ==
    LET g == Facades[gi]
        dst == GetDestinationNodes(g, l, node)
    IN IF InSeq(node, GetSourceNodes(g, l, node))
       THEN [k \in DOMAIN dst |-> CellMetric[gi][l][node + 1][PairIndex(g, node, dst[k])]]
       ELSE <<>>

\* the column of shortcuts entering a destination node: one entry per source
GetInWeight(gi, l, node) ==
    LET g == Facades[gi]
        src == GetSourceNodes(g, l, node)
    IN IF InSeq(node, GetDestinationNodes(g, l, node))
       THEN [k \in DOMAIN src |-> CellMetric[gi][l][node + 1][PairIndex(g, src[k], node)]]
       ELSE <<>>

(***************************************************************************)
(* PhantomNode (engine/phantom_node.hpp): a point snapped onto a segment,  *)
(* with a forward and a reverse half.  The forward half lies `off` along   *)
(* its segment and the reverse half the rest of a segment of weight 3;     *)
(* offsets never exceed the weight of an edge leaving the segment.         *)
(***************************************************************************)
PhantomNode(site, off) ==
    [forward_segment_id |-> [id |-> site.fwd, enabled |-> site.fwd # SPECIAL_NODEID],
     reverse_segment_id |-> [id |-> site.rev, enabled |-> site.rev # SPECIAL_NODEID],
     forward_weight_plus_offset |-> off,
     reverse_weight_plus_offset |-> 3 - off,
     forward_duration |-> off,
     reverse_duration |-> 3 - off,
     forward_distance |-> 10 * off,
     reverse_distance |-> 10 * (3 - off),
     is_valid_forward_source |-> site.source,
     is_valid_forward_target |-> site.target,
     is_valid_reverse_source |-> site.source,
     is_valid_reverse_target |-> site.target]

IsValidForwardSource(p) == p.forward_segment_id.enabled /\ p.is_valid_forward_source
IsValidForwardTarget(p) == p.forward_segment_id.enabled /\ p.is_valid_forward_target
IsValidReverseSource(p) == p.reverse_segment_id.enabled /\ p.is_valid_reverse_source
IsValidReverseTarget(p) == p.reverse_segment_id.enabled /\ p.is_valid_reverse_target

GetForwardWeightPlusOffset(p) == p.forward_weight_plus_offset
GetReverseWeightPlusOffset(p) == p.reverse_weight_plus_offset
GetForwardDuration(p) == p.forward_duration
GetReverseDuration(p) == p.reverse_duration
GetForwardDistance(p) == p.forward_distance
GetReverseDistance(p) == p.reverse_distance

\* the phantom array of a facade: phantom k lies (o + k) mod (MaxOffset + 1)
\* along its segment
PhantomArray(gi, o) ==
    [k \in DOMAIN Facades[gi].sites |->
        PhantomNode(Facades[gi].sites[k], (o + k - 1) % (MaxOffset + 1))]

(***************************************************************************)
(* ManyToManyQueryHeap (util/query_heap.hpp).  inserted_nodes holds one    *)
(* entry per Insert, node_index the latest entry of a node, queue the      *)
(* entries not yet deleted.                                                *)
(***************************************************************************)
EmptyHeap == [inserted_nodes |-> <<>>, node_index |-> <<>>, queue |-> {}]

HeapData(parent, from_clique_arc, duration) ==
    [parent |-> parent, from_clique_arc |-> from_clique_arc, duration |-> duration]

WasInserted(h, node) == node \in DOMAIN h.node_index

GetKey(h, node) == h.inserted_nodes[h.node_index[node]].weight

GetData(h, node) == h.inserted_nodes[h.node_index[node]].data

Empty(h) == h.queue = {}

Insert(h, node, weight, data) ==
    LET index == Len(h.inserted_nodes) + 1
    IN [inserted_nodes |-> Append(h.inserted_nodes,
                                  [node |-> node, weight |-> weight, data |-> data]),
        node_index |-> [n \in DOMAIN h.node_index \cup {node} |->
                           IF n = node THEN index ELSE h.node_index[n]],
        queue |-> h.queue \cup {index}]

SetData(h, node, data) ==
    [h EXCEPT !.inserted_nodes[h.node_index[node]].data = data]

DecreaseKey(h, node, weight) ==
    [h EXCEPT !.inserted_nodes[h.node_index[node]].weight = weight]

\* the entries DeleteMin may remove: those of least weight
MinEntries(h) ==
    {i \in h.queue : \A j \in h.queue :
        h.inserted_nodes[i].weight <= h.inserted_nodes[j].weight}

DeleteMin(h, index) == [h EXCEPT !.queue = h.queue \ {index}]

(***************************************************************************)
(* getNodeQueryLevel, the three overloads (lines 25-86).                   *)
(***************************************************************************)
highest_diffrent_level(g, node, segment) ==
    IF segment.enabled
    THEN GetHighestDifferentLevel(g, segment.id, node)
    ELSE INVALID_LEVEL_ID

getNodeQueryLevel(g, node, phantom_node) ==
    Min2(highest_diffrent_level(g, node, phantom_node.forward_segment_id),
         highest_diffrent_level(g, node, phantom_node.reverse_segment_id))

getNodeQueryLevelMax(g, node, phantom_node, maximal_level) ==
    LET node_level == getNodeQueryLevel(g, node, phantom_node)
    IN IF node_level >= maximal_level THEN INVALID_LEVEL_ID ELSE node_level

RECURSIVE MinLevel(_, _, _, _, _)
MinLevel(g, node, phantoms, indices, result) ==
    IF indices = <<>> THEN result
    ELSE MinLevel(g, node, phantoms, Tail(indices),
                  Min2(result, getNodeQueryLevel(g, node, phantoms[Head(indices) + 1])))

getNodeQueryLevelAll(g, node, phantoms, phantom_index, phantom_indices) ==
    MinLevel(g, node, phantoms, phantom_indices,
             getNodeQueryLevel(g, node, phantoms[phantom_index + 1]))

(***************************************************************************)
(* relaxOutgoingEdges (lines 88-207).  The caller resolves the level.      *)
(***************************************************************************)
\* a known node keeps the key of its insertion
RelaxEdgeInsertOnly(h, node, c) ==
    IF ~WasInserted(h, c.to)
    THEN Insert(h, c.to, c.weight, HeapData(node, c.from_clique_arc, c.duration))
    ELSE h

\* a better way to a known node is inserted as a new entry
RelaxEdgeReinsert(h, node, c) ==
    IF ~WasInserted(h, c.to)
    THEN Insert(h, c.to, c.weight, HeapData(node, c.from_clique_arc, c.duration))
    ELSE IF LexLess(c.weight, c.duration, GetKey(h, c.to), GetData(h, c.to).duration)
         THEN Insert(h, c.to, c.weight, HeapData(node, c.from_clique_arc, c.duration))
         ELSE h

\* insert a newly discovered node, or improve a known one (lines 127-136,
\* 157-166, 194-204)
RelaxEdge(h, node, c) ==
    IF ~WasInserted(h, c.to)
    THEN Insert(h, c.to, c.weight, HeapData(node, c.from_clique_arc, c.duration))
    ELSE IF LexLess(c.weight, c.duration, GetKey(h, c.to), GetData(h, c.to).duration)
         THEN DecreaseKey(SetData(h, c.to, HeapData(node, c.from_clique_arc, c.duration)),
                          c.to, c.weight)
         ELSE h

RECURSIVE RelaxAll(_, _, _)
RelaxAll(h, node, cs) ==
    IF cs = <<>> THEN h ELSE RelaxAll(RelaxEdge(h, node, Head(cs)), node, Tail(cs))

\* the shortcuts of the node's cell, in the direction of the search
ShortcutCandidates(gi, DIRECTION, level, node, weight, duration) ==
    LET g == Facades[gi]
        ends == IF DIRECTION = FORWARD_DIRECTION
                THEN GetDestinationNodes(g, level, node)
                ELSE GetSourceNodes(g, level, node)
        all(row) == [k \in DOMAIN row |->
                       [to |-> ends[k], weight |-> weight + row[k][1],
                        duration |-> duration + row[k][2], from_clique_arc |-> TRUE,
                        valid |-> row[k][1] # INVALID_EDGE_WEIGHT /\ node # ends[k]]]
    IN SelectSeq(all(IF DIRECTION = FORWARD_DIRECTION
                     THEN GetOutWeight(gi, level, node)
                     ELSE GetInWeight(gi, level, node)),
                 LAMBDA c : c.valid)

\* border edges entered into the heap as if they were shortcuts
BorderCandidatesAsClique(gi, DIRECTION, level, node, weight, duration) ==
    LET g == Facades[gi]
        edges == SelectSeq(GetBorderEdgeRange(g, level, node),
                           LAMBDA e : /\ IF DIRECTION = FORWARD_DIRECTION
                                         THEN e.forward ELSE e.backward
                                      /\ ~ExcludeNode(g, e.target))
    IN [k \in DOMAIN edges |->
          [to |-> edges[k].target, weight |-> weight + edges[k].weight,
           duration |-> duration + edges[k].duration, from_clique_arc |-> TRUE,
           valid |-> TRUE]]

\* the border edges of the node at the level, excluded targets skipped
BorderCandidates(gi, DIRECTION, level, node, weight, duration) ==
    LET g == Facades[gi]
        edges == SelectSeq(GetBorderEdgeRange(g, level, node),
                           LAMBDA e : /\ IF DIRECTION = FORWARD_DIRECTION
                                         THEN e.forward ELSE e.backward
                                      /\ ~ExcludeNode(g, e.target))
    IN [k \in DOMAIN edges |->
          [to |-> edges[k].target, weight |-> weight + edges[k].weight,
           duration |-> duration + edges[k].duration, from_clique_arc |-> FALSE,
           valid |-> TRUE]]

relaxOutgoingEdges(gi, DIRECTION, node, weight, duration, query_heap, level) ==
    IF level = INVALID_LEVEL_ID THEN query_heap
    ELSE LET shortcuts ==
                 IF level >= 1 /\ ~GetData(query_heap, node).from_clique_arc
                 THEN ShortcutCandidates(gi, DIRECTION, level, node, weight, duration)
                 ELSE <<>>
         IN RelaxAll(query_heap, node,
                     shortcuts \o BorderCandidates(gi, DIRECTION, level, node,
                                                   weight, duration))

\* what a step reads after DeleteMin (lines 385-387, 569-571, 618-622), and
\* the direction and level relaxOutgoingEdges works with (lines 88, 100)
Settled(h, node, DIRECTION, level) ==
    [node |-> node, weight |-> GetKey(h, node),
     duration |-> GetData(h, node).duration,
     parent |-> GetData(h, node).parent,
     from_clique_arc |-> GetData(h, node).from_clique_arc,
     DIRECTION |-> DIRECTION, level |-> level]

(***************************************************************************)
(* State.                                                                  *)
(*   request     the arguments of the query: facade, phantom_nodes,        *)
(*               source_indices, target_indices, calculate_distance        *)
(*   plan        what the caller does: one top-level search ("search"), a  *)
(*               search followed by the search with the lists swapped      *)
(*               ("swapped"), or the forward driver followed by the        *)
(*               reverse driver on the swapped lists ("drivers")           *)
(*   call        the running call: its number, its entry point and lists   *)
(*   frame       the driver chosen and its arguments                       *)
(*   pc          the position in the running function                      *)
(*   query_heap  engine_working_data.many_to_many_heap                     *)
(*   weights_table, durations_table, distances_table, middle_nodes_table   *)
(*               the result arrays (weights, durations, distances and      *)
(*               target_nodes in oneToManySearch)                          *)
(*   target_nodes_index        the multimap of oneToManySearch             *)
(*   search_space_with_buckets the bucket store of manyToManySearch        *)
(*   row_idx, column_idx       the loop counters                           *)
(*   result      the pair of the last return, first the one before it      *)
(*   fault       the undefined behaviour met so far, if any                *)
(*   settled     what each DeleteMin of the running search has read: the   *)
(*               node, its key and its heap data, and the direction and    *)
(*               level its edges were relaxed with                         *)
(*   engine_working_data   the thread-local storage: for the heap          *)
(*               many_to_many_heap the search that has last initialized    *)
(*               or cleared it, for forward_heap_1 and reverse_heap_1 the  *)
(*               call that has; <<0, "none", 0>> and 0 stand for storage   *)
(*               as the earlier queries of the thread have left it, which  *)
(*               on a new thread is a null pointer                         *)
(***************************************************************************)
VARIABLES request, plan, call, frame, pc, query_heap,
          weights_table, durations_table, distances_table, middle_nodes_table,
          target_nodes_index, search_space_with_buckets,
          row_idx, column_idx, result, first, fault, settled,
          engine_working_data

vars == <<request, plan, call, frame, pc, query_heap,
          weights_table, durations_table, distances_table, middle_nodes_table,
          target_nodes_index, search_space_with_buckets,
          row_idx, column_idx, result, first, fault, settled,
          engine_working_data>>

tables == <<weights_table, durations_table, distances_table, middle_nodes_table>>

Facade == Facades[request.facade]

Phantom(i) == request.phantom_nodes[i + 1]

\* an index list: len consecutive phantom indices from start, wrapping around
Window(start, len, count) == [i \in 1..len |-> (start + i - 1) % count]

IndexLists(count) ==
    {Window(start, len, count) : start \in 0..(count - 1), len \in 1..MaxLen}

\* every directed edge has a twin of equal weight and duration
IsSymmetric(g) ==
    \A i \in DOMAIN g.base : \E j \in DOMAIN g.base :
        /\ g.base[j].from = g.base[i].to
        /\ g.base[j].to = g.base[i].from
        /\ g.base[j].weight = g.base[i].weight
        /\ g.base[j].duration = g.base[i].duration

NoResult == [durations |-> <<>>, distances |-> <<>>]

NoFrame == [driver |-> "none", DIRECTION |-> FORWARD_DIRECTION,
            source_indices |-> <<>>, target_indices |-> <<>>]

Init ==
    /\ \E gi \in DOMAIN Facades, o \in 0..MaxOffset, calc \in BOOLEAN :
         \E S \in IndexLists(Len(Facades[gi].sites)),
            T \in IndexLists(Len(Facades[gi].sites)) :
            /\ request = [facade |-> gi,
                          phantom_nodes |-> PhantomArray(gi, o),
                          source_indices |-> S,
                          target_indices |-> T,
                          calculate_distance |-> calc]
            /\ plan \in {"search"}
                        \cup (IF ~calc /\ IsSymmetric(Facades[gi])
                              THEN {"swapped"} ELSE {})
                        \cup (IF ~calc /\ Len(S) = Len(T) /\ Len(S) >= 2
                              THEN {"drivers"} ELSE {})
            /\ call = [n |-> 1,
                       entry |-> IF plan = "drivers" THEN "forward" ELSE "search",
                       source_indices |-> S,
                       target_indices |-> T]
    /\ frame = NoFrame
    /\ pc = "call"
    /\ query_heap = EmptyHeap
    /\ weights_table = <<>>
    /\ durations_table = <<>>
    /\ distances_table = <<>>
    /\ middle_nodes_table = <<>>
    /\ target_nodes_index = {}
    /\ search_space_with_buckets = <<>>
    /\ row_idx = 0
    /\ column_idx = 0
    /\ result = NoResult
    /\ first = NoResult
    /\ fault = "none"
    /\ settled = <<>>
    /\ engine_working_data = [many_to_many_heap |-> <<0, "none", 0>>,
                              forward_heap_1 |-> 0]

(***************************************************************************)
(* The dispatcher manyToManySearch<mld::Algorithm> (lines 999-1048).       *)
(***************************************************************************)
OneToMany(DIRECTION, source_phantom_index, phantom_indices) ==
    [driver |-> "oneToManySearch", DIRECTION |-> DIRECTION,
     source_indices |-> <<source_phantom_index>>, target_indices |-> phantom_indices]

\* a many-to-many driver that runs forward whatever its direction
ManyToManyForwardOnly(DIRECTION, source_indices, target_indices) ==
    [driver |-> "manyToManySearch", DIRECTION |-> FORWARD_DIRECTION,
     source_indices |-> source_indices, target_indices |-> target_indices]

ManyToMany(DIRECTION, source_indices, target_indices) ==
    [driver |-> "manyToManySearch", DIRECTION |-> DIRECTION,
     source_indices |-> source_indices, target_indices |-> target_indices]

\* a dispatcher that looks at the number of targets first
DispatchTargetsFirst(source_indices, target_indices) ==
    IF Len(target_indices) = 1
    THEN OneToMany(REVERSE_DIRECTION, Head(target_indices), source_indices)
    ELSE IF Len(source_indices) = 1
    THEN OneToMany(FORWARD_DIRECTION, Head(source_indices), target_indices)
    ELSE IF Len(target_indices) < Len(source_indices)
    THEN ManyToMany(REVERSE_DIRECTION, target_indices, source_indices)
    ELSE ManyToMany(FORWARD_DIRECTION, source_indices, target_indices)

Dispatch(source_indices, target_indices) ==
    IF Len(source_indices) = 1
    THEN OneToMany(FORWARD_DIRECTION, Head(source_indices), target_indices)
    ELSE IF Len(target_indices) = 1
    THEN OneToMany(REVERSE_DIRECTION, Head(target_indices), source_indices)
    ELSE IF Len(target_indices) < Len(source_indices)
    THEN ManyToMany(REVERSE_DIRECTION, target_indices, source_indices)
    ELSE ManyToMany(FORWARD_DIRECTION, source_indices, target_indices)

manyToManySearch ==
    /\ pc = "call"
    /\ call.entry = "search"
    /\ frame' = Dispatch(call.source_indices, call.target_indices)
    /\ pc' = frame'.driver
    /\ UNCHANGED <<request, engine_working_data,
                   plan, call, query_heap, settled, tables, target_nodes_index,
                   search_space_with_buckets, row_idx, column_idx, result, first, fault>>

\* a caller of the drivers themselves: mld::manyToManySearch<DIRECTION>
CallDriver ==
    /\ pc = "call"
    /\ call.entry # "search"
    /\ frame' = ManyToMany(call.entry = "forward",
                           call.source_indices, call.target_indices)
    /\ pc' = "manyToManySearch"
    /\ UNCHANGED <<request, engine_working_data,
                   plan, call, query_heap, settled, tables, target_nodes_index,
                   search_space_with_buckets, row_idx, column_idx, result, first, fault>>

(***************************************************************************)
(* oneToManySearch (lines 212-552).                                        *)
(***************************************************************************)
Filled(n, v) == [i \in 1..n |-> v]

\* the entries of target_nodes_index for one slot (lines 236-277)
TargetEntries(DIRECTION, phantom_node, index) ==
    IF DIRECTION = FORWARD_DIRECTION
    THEN (IF IsValidForwardTarget(phantom_node)
          THEN {[node |-> phantom_node.forward_segment_id.id, index |-> index,
                 weight |-> GetForwardWeightPlusOffset(phantom_node),
                 duration |-> GetForwardDuration(phantom_node)]}
          ELSE {})
         \cup
         (IF IsValidReverseTarget(phantom_node)
          THEN {[node |-> phantom_node.reverse_segment_id.id, index |-> index,
                 weight |-> GetReverseWeightPlusOffset(phantom_node),
                 duration |-> GetReverseDuration(phantom_node)]}
          ELSE {})
    ELSE (IF IsValidForwardSource(phantom_node)
          THEN {[node |-> phantom_node.forward_segment_id.id, index |-> index,
                 weight |-> -GetForwardWeightPlusOffset(phantom_node),
                 duration |-> -GetForwardDuration(phantom_node)]}
          ELSE {})
         \cup
         (IF IsValidReverseSource(phantom_node)
          THEN {[node |-> phantom_node.reverse_segment_id.id, index |-> index,
                 weight |-> -GetReverseWeightPlusOffset(phantom_node),
                 duration |-> -GetReverseDuration(phantom_node)]}
          ELSE {})

\* the writes distances[target_phantom_index] = ... of one slot, in order
\* (lines 245, 254, 266, 275): the position written is the phantom index
DistanceWrites(DIRECTION, phantom_node, target_phantom_index) ==
    IF DIRECTION = FORWARD_DIRECTION
    THEN (IF IsValidForwardTarget(phantom_node)
          THEN << <<target_phantom_index, GetForwardDistance(phantom_node)>> >>
          ELSE <<>>)
         \o
         (IF IsValidReverseTarget(phantom_node)
          THEN << <<target_phantom_index, GetReverseDistance(phantom_node)>> >>
          ELSE <<>>)
    ELSE (IF IsValidForwardSource(phantom_node)
          THEN << <<target_phantom_index, -GetForwardDistance(phantom_node)>> >>
          ELSE <<>>)
         \o
         (IF IsValidReverseSource(phantom_node)
          THEN << <<target_phantom_index, -GetReverseDistance(phantom_node)>> >>
          ELSE <<>>)

RECURSIVE AllDistanceWrites(_, _, _, _)
AllDistanceWrites(DIRECTION, phantoms, phantom_indices, index) ==
    IF index >= Len(phantom_indices) THEN <<>>
    ELSE DistanceWrites(DIRECTION, phantoms[phantom_indices[index + 1] + 1],
                        phantom_indices[index + 1])
         \o AllDistanceWrites(DIRECTION, phantoms, phantom_indices, index + 1)

\* a write past the end of the array lands outside it
RECURSIVE ApplyWrites(_, _)
ApplyWrites(array, writes) ==
    IF writes = <<>> THEN array
    ELSE LET w == Head(writes)
         IN ApplyWrites(IF w[1] < Len(array)
                        THEN [array EXCEPT ![w[1] + 1] = w[2]]
                        ELSE array,
                        Tail(writes))

OutOfRange(array, writes) == \E k \in DOMAIN writes : writes[k][1] >= Len(array)

\* a candidate is erased only when it is committed
RECURSIVE UpdateCandidatesKeepWorse(_, _, _, _, _)
UpdateCandidatesKeepWorse(st, candidates, node, weight, duration) ==
    IF candidates = {} THEN st
    ELSE LET c == CHOOSE x \in candidates : TRUE
             path_weight == weight + c.weight
             path_duration == duration + c.duration
             better == LexLess(path_weight, path_duration,
                               st.weights[c.index + 1], st.durations[c.index + 1])
             next == IF path_weight >= 0 /\ better
                     THEN [st EXCEPT
                             !.weights[c.index + 1] = path_weight,
                             !.durations[c.index + 1] = path_duration,
                             !.nodes[c.index + 1] = node,
                             !.index = @ \ {c}]
                     ELSE st
         IN UpdateCandidatesKeepWorse(next, candidates \ {c}, node, weight, duration)

\* a candidate is committed and erased whatever the sign of its weight
RECURSIVE UpdateCandidatesUnguarded(_, _, _, _, _)
UpdateCandidatesUnguarded(st, candidates, node, weight, duration) ==
    IF candidates = {} THEN st
    ELSE LET c == CHOOSE x \in candidates : TRUE
             path_weight == weight + c.weight
             path_duration == duration + c.duration
             better == LexLess(path_weight, path_duration,
                               st.weights[c.index + 1], st.durations[c.index + 1])
             next == [st EXCEPT
                        !.weights[c.index + 1] = IF better THEN path_weight ELSE @,
                        !.durations[c.index + 1] = IF better THEN path_duration ELSE @,
                        !.nodes[c.index + 1] = IF better THEN node ELSE @,
                        !.index = @ \ {c}]
         IN UpdateCandidatesUnguarded(next, candidates \ {c}, node, weight, duration)

\* update_values (lines 286-316) on st = [index, weights, durations, nodes, heap]
RECURSIVE UpdateCandidates(_, _, _, _, _)
UpdateCandidates(st, candidates, node, weight, duration) ==
    IF candidates = {} THEN st
    ELSE LET c == CHOOSE x \in candidates : TRUE
             path_weight == weight + c.weight
             path_duration == duration + c.duration
             better == LexLess(path_weight, path_duration,
                               st.weights[c.index + 1], st.durations[c.index + 1])
             next == IF path_weight >= 0
                     THEN [st EXCEPT
                             !.weights[c.index + 1] = IF better THEN path_weight ELSE @,
                             !.durations[c.index + 1] = IF better THEN path_duration ELSE @,
                             !.nodes[c.index + 1] = IF better THEN node ELSE @,
                             !.index = @ \ {c}]
                     ELSE st
         IN UpdateCandidates(next, candidates \ {c}, node, weight, duration)

update_values(st, node, weight, duration) ==
    UpdateCandidates(st, {c \in st.index : c.node = node}, node, weight, duration)

\* the test guarding the insertion of an adjacent node (lines 329-331): the
\* conditional operator binds weaker than &&
AdjacentGuard(DIRECTION, data, h) ==
    IF DIRECTION = FORWARD_DIRECTION
    THEN data.forward
    ELSE data.backward /\ ~WasInserted(h, data.target)

RECURSIVE InsertAdjacent(_, _, _, _, _, _)
InsertAdjacent(DIRECTION, h, edges, node, initial_weight, initial_duration) ==
    IF edges = <<>> THEN h
    ELSE LET data == Head(edges)
         IN InsertAdjacent(DIRECTION,
                IF AdjacentGuard(DIRECTION, data, h)
                THEN Insert(h, data.target, data.weight + initial_weight,
                            HeapData(node, FALSE, data.duration + initial_duration))
                ELSE h,
                Tail(edges), node, initial_weight, initial_duration)

\* insert_node (lines 318-338)
insert_node(gi, DIRECTION, st, node, initial_weight, initial_duration) ==
    LET updated == update_values(st, node, initial_weight, initial_duration)
        seeded == Insert(updated.heap, node, initial_weight,
                         HeapData(node, FALSE, initial_duration))
    IN [updated EXCEPT !.heap =
            InsertAdjacent(DIRECTION, seeded, GetAdjacentEdgeRange(Facades[gi], node),
                           node, initial_weight, initial_duration)]

\* the offsets of the seeds are taken as they are in both directions
InsertSourcePhantomUnsigned(gi, DIRECTION, st, p) ==
    LET forward_valid == IF DIRECTION = FORWARD_DIRECTION
                         THEN IsValidForwardSource(p) ELSE IsValidForwardTarget(p)
        reverse_valid == IF DIRECTION = FORWARD_DIRECTION
                         THEN IsValidReverseSource(p) ELSE IsValidReverseTarget(p)
        a == IF forward_valid
             THEN insert_node(gi, DIRECTION, st, p.forward_segment_id.id,
                              GetForwardWeightPlusOffset(p), GetForwardDuration(p))
             ELSE st
    IN IF reverse_valid
       THEN insert_node(gi, DIRECTION, a, p.reverse_segment_id.id,
                        GetReverseWeightPlusOffset(p), GetReverseDuration(p))
       ELSE a

\* the seeding of the source (destination) phantom (lines 340-380)
InsertSourcePhantom(gi, DIRECTION, st, p) ==
    IF DIRECTION = FORWARD_DIRECTION
    THEN LET a == IF IsValidForwardSource(p)
                  THEN insert_node(gi, DIRECTION, st, p.forward_segment_id.id,
                                   -GetForwardWeightPlusOffset(p), -GetForwardDuration(p))
                  ELSE st
         IN IF IsValidReverseSource(p)
            THEN insert_node(gi, DIRECTION, a, p.reverse_segment_id.id,
                             -GetReverseWeightPlusOffset(p), -GetReverseDuration(p))
            ELSE a
    ELSE LET a == IF IsValidForwardTarget(p)
                  THEN insert_node(gi, DIRECTION, st, p.forward_segment_id.id,
                                   GetForwardWeightPlusOffset(p), GetForwardDuration(p))
                  ELSE st
         IN IF IsValidReverseTarget(p)
            THEN insert_node(gi, DIRECTION, a, p.reverse_segment_id.id,
                             GetReverseWeightPlusOffset(p), GetReverseDuration(p))
            ELSE a

SearchState ==
    [index |-> target_nodes_index, weights |-> weights_table,
     durations |-> durations_table, nodes |-> middle_nodes_table, heap |-> query_heap]

\* lines 221-380: the result arrays, the target index, the heap and its seeds
OneToManyStart ==
    /\ pc = "oneToManySearch"
    /\ LET phantom_indices == frame.target_indices
           n == Len(phantom_indices)
           writes == AllDistanceWrites(frame.DIRECTION, request.phantom_nodes,
                                       phantom_indices, 0)
           overrun == OutOfRange(Filled(n, INVALID_EDGE_DISTANCE), writes)
       IN \E st \in {InsertSourcePhantom(request.facade, frame.DIRECTION,
                        [index |-> UNION {TargetEntries(frame.DIRECTION,
                                              Phantom(phantom_indices[i + 1]), i) :
                                            i \in 0..(n - 1)},
                         weights |-> Filled(n, INVALID_EDGE_WEIGHT),
                         durations |-> Filled(n, MAXIMAL_EDGE_DURATION),
                         nodes |-> Filled(n, SPECIAL_NODEID),
                         heap |-> EmptyHeap],
                        Phantom(Head(frame.source_indices)))} :
          \E outcome \in IF overrun THEN {"goes on", "aborts"} ELSE {"goes on"} :
            /\ fault' = IF overrun THEN "write past the end of distances" ELSE fault
            /\ pc' = IF outcome = "aborts" THEN "aborted" ELSE "o2m_loop"
            /\ distances_table' = ApplyWrites(Filled(n, INVALID_EDGE_DISTANCE), writes)
            /\ target_nodes_index' = st.index
            /\ weights_table' = st.weights
            /\ durations_table' = st.durations
            /\ middle_nodes_table' = st.nodes
            /\ query_heap' = st.heap
    /\ settled' = <<>>
    /\ engine_working_data' =
          [engine_working_data EXCEPT
              !.many_to_many_heap = <<call.n, "oneToManySearch", 0>>]
    /\ UNCHANGED <<request, plan, call, frame, search_space_with_buckets,
                   row_idx, column_idx, result, first>>

\* one turn of the main loop (lines 382-401)
OneToManyStep ==
    /\ pc = "o2m_loop"
    /\ ~Empty(query_heap)
    /\ target_nodes_index # {}
    /\ \E index \in MinEntries(query_heap) :
         LET node == query_heap.inserted_nodes[index].node
             popped == DeleteMin(query_heap, index)
             weight == GetKey(popped, node)
             duration == GetData(popped, node).duration
             st == update_values([SearchState EXCEPT !.heap = popped],
                                 node, weight, duration)
             level == getNodeQueryLevelAll(Facade, node, request.phantom_nodes,
                                           Head(frame.source_indices),
                                           frame.target_indices)
         IN /\ target_nodes_index' = st.index
            /\ weights_table' = st.weights
            /\ durations_table' = st.durations
            /\ middle_nodes_table' = st.nodes
            /\ query_heap' = relaxOutgoingEdges(request.facade, frame.DIRECTION, node,
                                                weight, duration, popped, level)
            /\ settled' = Append(settled, Settled(popped, node, frame.DIRECTION, level))
    /\ UNCHANGED <<request, engine_working_data,
                   plan, call, frame, pc, distances_table,
                   search_space_with_buckets, row_idx, column_idx, result, first, fault>>

\* the loop ends: the heap or the target index is empty (line 382)
OneToManyLoopEnd ==
    /\ pc = "o2m_loop"
    /\ Empty(query_heap) \/ target_nodes_index = {}
    /\ pc' = IF request.calculate_distance THEN "o2m_distances" ELSE "o2m_return"
    /\ column_idx' = 0
    /\ UNCHANGED <<request, engine_working_data,
                   plan, call, frame, query_heap, settled, tables, target_nodes_index,
                   search_space_with_buckets, row_idx, result, first, fault>>

\* line 551
OneToManyReturn ==
    /\ pc = "o2m_return"
    /\ result' = [durations |-> durations_table, distances |-> distances_table]
    /\ pc' = "returned"
    /\ UNCHANGED <<request, engine_working_data,
                   plan, call, frame, query_heap, settled, tables, target_nodes_index,
                   search_space_with_buckets, row_idx, column_idx, first, fault>>

(***************************************************************************)
(* mld::manyToManySearch (lines 554-983).                                  *)
(***************************************************************************)
\* insertSourceInHeap, insertTargetInHeap (routing_base.hpp)
insertSourceInHeap(h, p) ==
    LET a == IF IsValidForwardSource(p)
             THEN Insert(h, p.forward_segment_id.id, -GetForwardWeightPlusOffset(p),
                         HeapData(p.forward_segment_id.id, FALSE, -GetForwardDuration(p)))
             ELSE h
    IN IF IsValidReverseSource(p)
       THEN Insert(a, p.reverse_segment_id.id, -GetReverseWeightPlusOffset(p),
                   HeapData(p.reverse_segment_id.id, FALSE, -GetReverseDuration(p)))
       ELSE a

insertTargetInHeap(h, p) ==
    LET a == IF IsValidForwardTarget(p)
             THEN Insert(h, p.forward_segment_id.id, GetForwardWeightPlusOffset(p),
                         HeapData(p.forward_segment_id.id, FALSE, GetForwardDuration(p)))
             ELSE h
    IN IF IsValidReverseTarget(p)
       THEN Insert(a, p.reverse_segment_id.id, GetReverseWeightPlusOffset(p),
                   HeapData(p.reverse_segment_id.id, FALSE, GetReverseDuration(p)))
       ELSE a

NodeBucket(middle_node, parent_node, from_clique_arc, column_index, weight, duration) ==
    [middle_node |-> middle_node, parent_node |-> parent_node,
     from_clique_arc |-> from_clique_arc, column_index |-> column_index,
     weight |-> weight, duration |-> duration]

\* NodeBucket::operator<
BucketLess(a, b) ==
    \/ a.middle_node < b.middle_node
    \/ a.middle_node = b.middle_node /\ a.column_index < b.column_index

RECURSIVE InsertSorted(_, _)
InsertSorted(sorted, b) ==
    IF sorted = <<>> THEN <<b>>
    ELSE IF BucketLess(b, Head(sorted)) THEN <<b>> \o sorted
    ELSE <<Head(sorted)>> \o InsertSorted(Tail(sorted), b)

\* the store left as the backward searches wrote it
Unsorted(buckets) == buckets

RECURSIVE Sort(_)
Sort(buckets) ==
    IF buckets = <<>> THEN <<>>
    ELSE InsertSorted(Sort(SubSeq(buckets, 1, Len(buckets) - 1)), buckets[Len(buckets)])

\* the place of (row_idx, column_idx) in the result tables (lines 585-590,
\* 697-699)
\* the forward expression in both directions
LocationRowMajor(DIRECTION, row_idx_, column_idx_, number_of_sources, number_of_targets) ==
    row_idx_ * number_of_targets + column_idx_

Location(DIRECTION, row_idx_, column_idx_, number_of_sources, number_of_targets) ==
    IF DIRECTION = FORWARD_DIRECTION
    THEN row_idx_ * number_of_targets + column_idx_
    ELSE row_idx_ + column_idx_ * number_of_sources

\* every candidate of weight zero or more is written, better or not
RECURSIVE UpdateTablesLastWins(_, _, _, _, _, _)
UpdateTablesLastWins(t, buckets, DIRECTION, row, node, source) ==
    IF buckets = <<>> THEN t
    ELSE LET current_bucket == Head(buckets)
             location == Location(DIRECTION, row, current_bucket.column_index,
                                  t.number_of_sources, t.number_of_targets)
             new_weight == source[1] + current_bucket.weight
             new_duration == source[2] + current_bucket.duration
         IN UpdateTablesLastWins(
                IF new_weight >= 0
                THEN [t EXCEPT !.weights[location + 1] = new_weight,
                               !.durations[location + 1] = new_duration,
                               !.nodes[location + 1] = node]
                ELSE t,
                Tail(buckets), DIRECTION, row, node, source)

\* the duration of the bucket left out of the sum
RECURSIVE UpdateTablesSourceOnly(_, _, _, _, _, _)
UpdateTablesSourceOnly(t, buckets, DIRECTION, row, node, source) ==
    IF buckets = <<>> THEN t
    ELSE LET current_bucket == Head(buckets)
             location == Location(DIRECTION, row, current_bucket.column_index,
                                  t.number_of_sources, t.number_of_targets)
             new_weight == source[1] + current_bucket.weight
             new_duration == source[2]
             better == /\ new_weight >= 0
                       /\ LexLess(new_weight, new_duration,
                                  t.weights[location + 1], t.durations[location + 1])
         IN UpdateTablesSourceOnly(
                IF better
                THEN [t EXCEPT !.weights[location + 1] = new_weight,
                               !.durations[location + 1] = new_duration,
                               !.nodes[location + 1] = node]
                ELSE t,
                Tail(buckets), DIRECTION, row, node, source)

\* lines 578-605 for the buckets of the popped node, in store order
RECURSIVE UpdateTables(_, _, _, _, _, _)
UpdateTables(t, buckets, DIRECTION, row, node, source) ==
    IF buckets = <<>> THEN t
    ELSE LET current_bucket == Head(buckets)
             location == Location(DIRECTION, row, current_bucket.column_index,
                                  t.number_of_sources, t.number_of_targets)
             new_weight == source[1] + current_bucket.weight
             new_duration == source[2] + current_bucket.duration
             better == /\ new_weight >= 0
                       /\ LexLess(new_weight, new_duration,
                                  t.weights[location + 1], t.durations[location + 1])
         IN UpdateTables(
                IF better
                THEN [t EXCEPT !.weights[location + 1] = new_weight,
                               !.durations[location + 1] = new_duration,
                               !.nodes[location + 1] = node]
                ELSE t,
                Tail(buckets), DIRECTION, row, node, source)

\* lines 888-897
ManyToManyStart ==
    /\ pc = "manyToManySearch"
    /\ LET number_of_entries == Len(frame.source_indices) * Len(frame.target_indices)
       IN /\ weights_table' = Filled(number_of_entries, INVALID_EDGE_WEIGHT)
          /\ durations_table' = Filled(number_of_entries, MAXIMAL_EDGE_DURATION)
          /\ distances_table' = <<>>
          /\ middle_nodes_table' = Filled(number_of_entries, SPECIAL_NODEID)
    /\ search_space_with_buckets' = <<>>
    /\ column_idx' = 0
    /\ row_idx' = 0
    /\ pc' = "m2m_column"
    /\ UNCHANGED <<request, engine_working_data,
                   plan, call, frame, query_heap, settled, target_nodes_index,
                   result, first, fault>>

\* the head of the column loop (lines 900-912): a cleared heap, seeded with the
\* column's phantom
BackwardSearchStart ==
    /\ pc = "m2m_column"
    /\ column_idx < Len(frame.target_indices)
    /\ LET target_phantom == Phantom(frame.target_indices[column_idx + 1])
           seeded == IF frame.DIRECTION = FORWARD_DIRECTION
                     THEN insertTargetInHeap(EmptyHeap, target_phantom)
                     ELSE insertSourceInHeap(EmptyHeap, target_phantom)
       IN /\ query_heap' = seeded
          /\ settled' = <<>>
          /\ pc' = IF Empty(seeded) THEN "m2m_column" ELSE "m2m_backward"
          /\ column_idx' = IF Empty(seeded) THEN column_idx + 1 ELSE column_idx
    /\ engine_working_data' =
          [engine_working_data EXCEPT
              !.many_to_many_heap = <<call.n, "backward", column_idx>>]
    /\ UNCHANGED <<request, plan, call, frame, tables, target_nodes_index,
                   search_space_with_buckets, row_idx, result, first, fault>>

\* backwardRoutingStep (lines 611-633) and the loop test after it (line 915)
backwardRoutingStep ==
    /\ pc = "m2m_backward"
    /\ \E index \in MinEntries(query_heap) :
         LET node == query_heap.inserted_nodes[index].node
             popped == DeleteMin(query_heap, index)
             target_weight == GetKey(popped, node)
             target_duration == GetData(popped, node).duration
             parent == GetData(popped, node).parent
             from_clique_arc == GetData(popped, node).from_clique_arc
             maximal_level == GetNumberOfLevels(Facade) - 1
             target_phantom == Phantom(frame.target_indices[column_idx + 1])
             level == getNodeQueryLevelMax(Facade, node, target_phantom, maximal_level)
             relaxed == relaxOutgoingEdges(request.facade, ~frame.DIRECTION, node,
                            target_weight, target_duration, popped, level)
         IN /\ settled' = Append(settled, Settled(popped, node, ~frame.DIRECTION, level))
            /\ search_space_with_buckets' =
                  Append(search_space_with_buckets,
                         NodeBucket(node, parent, from_clique_arc, column_idx,
                                    target_weight, target_duration))
            /\ query_heap' = relaxed
            /\ pc' = IF Empty(query_heap') THEN "m2m_column" ELSE "m2m_backward"
            /\ column_idx' = IF Empty(query_heap') THEN column_idx + 1 ELSE column_idx
    /\ UNCHANGED <<request, engine_working_data,
                   plan, call, frame, tables, target_nodes_index,
                   row_idx, result, first, fault>>

\* line 923
SortBuckets ==
    /\ pc = "m2m_column"
    /\ column_idx = Len(frame.target_indices)
    /\ search_space_with_buckets' = Sort(search_space_with_buckets)
    /\ row_idx' = 0
    /\ column_idx' = 0
    /\ pc' = "m2m_row"
    /\ UNCHANGED <<request, engine_working_data,
                   plan, call, frame, query_heap, settled, tables, target_nodes_index,
                   result, first, fault>>

\* where the row loop goes once the heap of a row is empty (lines 943, 963)
AfterForwardSearch == IF request.calculate_distance THEN "m2m_distances" ELSE "m2m_row"

\* the head of the row loop (lines 926-940)
ForwardSearchStart ==
    /\ pc = "m2m_row"
    /\ row_idx < Len(frame.source_indices)
    /\ LET source_phantom == Phantom(frame.source_indices[row_idx + 1])
           seeded == IF frame.DIRECTION = FORWARD_DIRECTION
                     THEN insertSourceInHeap(EmptyHeap, source_phantom)
                     ELSE insertTargetInHeap(EmptyHeap, source_phantom)
       IN /\ query_heap' = seeded
          /\ settled' = <<>>
          /\ pc' = IF Empty(seeded) THEN AfterForwardSearch ELSE "m2m_forward"
          /\ row_idx' = IF Empty(seeded) /\ ~request.calculate_distance
                        THEN row_idx + 1 ELSE row_idx
    /\ engine_working_data' =
          [engine_working_data EXCEPT
              !.many_to_many_heap = <<call.n, "forward", row_idx>>]
    /\ UNCHANGED <<request, plan, call, frame, tables, target_nodes_index,
                   search_space_with_buckets, column_idx, result, first, fault>>

\* forwardRoutingStep (lines 557-609) and the loop test after it (line 943)
forwardRoutingStep ==
    /\ pc = "m2m_forward"
    /\ \E index \in MinEntries(query_heap) :
         LET node == query_heap.inserted_nodes[index].node
             popped == DeleteMin(query_heap, index)
             source_weight == GetKey(popped, node)
             source_duration == GetData(popped, node).duration
             source_phantom == Phantom(frame.source_indices[row_idx + 1])
             bucket_list == SelectSeq(search_space_with_buckets,
                                      LAMBDA b : b.middle_node = node)
             t == UpdateTables([weights |-> weights_table,
                                durations |-> durations_table,
                                nodes |-> middle_nodes_table,
                                number_of_sources |-> Len(frame.source_indices),
                                number_of_targets |-> Len(frame.target_indices)],
                               bucket_list, frame.DIRECTION, row_idx, node,
                               <<source_weight, source_duration>>)
             level == getNodeQueryLevel(Facade, node, source_phantom)
             relaxed == relaxOutgoingEdges(request.facade, frame.DIRECTION, node,
                            source_weight, source_duration, popped, level)
         IN /\ settled' = Append(settled, Settled(popped, node, frame.DIRECTION, level))
            /\ weights_table' = t.weights
            /\ durations_table' = t.durations
            /\ middle_nodes_table' = t.nodes
            /\ query_heap' = relaxed
            /\ pc' = IF Empty(query_heap') THEN AfterForwardSearch ELSE "m2m_forward"
            /\ row_idx' = IF Empty(query_heap') /\ ~request.calculate_distance
                          THEN row_idx + 1 ELSE row_idx
    /\ UNCHANGED <<request, engine_working_data,
                   plan, call, frame, distances_table, target_nodes_index,
                   search_space_with_buckets, column_idx, result, first, fault>>

\* line 982
ManyToManyReturn ==
    /\ pc = "m2m_row"
    /\ row_idx = Len(frame.source_indices)
    /\ result' = [durations |-> durations_table, distances |-> distances_table]
    /\ pc' = "returned"
    /\ UNCHANGED <<request, engine_working_data,
                   plan, call, frame, query_heap, settled, tables, target_nodes_index,
                   search_space_with_buckets, row_idx, column_idx, first, fault>>

(***************************************************************************)
(* Path reconstruction and distances.                                      *)
(***************************************************************************)
\* computeEdgeDistance: the geometry length of a node
computeEdgeDistance(g, node) == g.length[node + 1]

\* adding to the largest double leaves it unchanged
AddDistance(a, b) == IF a = INVALID_EDGE_DISTANCE THEN a ELSE a + b

\* retrievePackedPathFromSingleManyToManyHeap (routing_base_mld.hpp): the
\* parent chain from a node down to a seed, as packed edges <<from, to, shortcut>>
RECURSIVE HeapWalk(_, _, _, _)
HeapWalk(DIRECTION, h, current, fuel) ==
    LET parent == GetData(h, current).parent
    IN IF current = parent \/ fuel = 0 THEN <<>>
       ELSE << IF DIRECTION = FORWARD_DIRECTION
               THEN <<parent, current, GetData(h, current).from_clique_arc>>
               ELSE <<current, parent, GetData(h, current).from_clique_arc>> >>
            \o HeapWalk(DIRECTION, h, parent, fuel - 1)

retrievePackedPathFromSingleManyToManyHeap(DIRECTION, h, middle) ==
    HeapWalk(DIRECTION, h, middle, Len(h.inserted_nodes))

\* the lookup compares the node only: the first bucket of the node or of a
\* node above it
LowerBoundOfNode(buckets, node, column) ==
    LET at == {i \in DOMAIN buckets : buckets[i].middle_node >= node}
    IN IF at = {} THEN Len(buckets) + 1 ELSE CHOOSE i \in at : \A j \in at : i <= j

\* std::equal_range(..., NodeBucket::ColumnCompare(column)).first: the first
\* bucket not below (node, column), or the end of the store
LowerBound(buckets, node, column) ==
    LET at == {i \in DOMAIN buckets :
                 ~(\/ buckets[i].middle_node < node
                   \/ buckets[i].middle_node = node /\ buckets[i].column_index < column)}
    IN IF at = {} THEN Len(buckets) + 1 ELSE CHOOSE i \in at : \A j \in at : i <= j

\* the walk of lines 650-663; `lost` tells that it read past the store or ran on
RECURSIVE BucketWalk(_, _, _, _, _)
BucketWalk(buckets, column, current, first_, fuel) ==
    IF first_ > Len(buckets) \/ fuel = 0 THEN [leg |-> <<>>, lost |-> TRUE]
    ELSE IF buckets[first_].parent_node = current THEN [leg |-> <<>>, lost |-> FALSE]
    ELSE LET parent == buckets[first_].parent_node
             rest == BucketWalk(buckets, column, parent,
                                LowerBound(buckets, parent, column), fuel - 1)
         IN [leg |-> << <<parent, buckets[first_].from_clique_arc>> >> \o rest.leg,
             lost |-> rest.lost]

\* retrievePackedPathFromSearchSpace (lines 635-675): the edges it appends
retrievePackedPathFromSearchSpace(middle_node_id, column, buckets) ==
    LET walk == BucketWalk(buckets, column, middle_node_id,
                           LowerBound(buckets, middle_node_id, column), Len(buckets) + 1)
        packed_leg == walk.leg
    IN [path |-> [k \in DOMAIN packed_leg |->
                     <<IF k = 1 THEN middle_node_id ELSE packed_leg[k - 1][1],
                       packed_leg[k][1], packed_leg[k][2]>>],
        lost |-> walk.lost]

\* a packed edge names a base edge, or a shortcut of a cell both ends share
IsEdge(gi, e) ==
    LET g == Facades[gi]
        l == GetHighestDifferentLevel(g, e[1], e[2]) + 1
    IN IF e[3]
       THEN /\ l < g.levels
            /\ e[1] \notin g.excluded
            /\ CellMetric[gi][l][e[1] + 1][PairIndex(g, e[1], e[2])] # Unreachable
       ELSE \E i \in DOMAIN g.base : g.base[i].from = e[1] /\ g.base[i].to = e[2]

\* the nodes a packed edge unpacks to, after its first
Unpacked(gi, e) ==
    LET g == Facades[gi]
        l == GetHighestDifferentLevel(g, e[1], e[2]) + 1
    IN IF e[3] /\ IsEdge(gi, e)
       THEN Tail(PathInside(g, CellNodes(g, l, e[1]), CellMetric[gi][l][e[1] + 1],
                            e[1], e[2]))
       ELSE <<e[2]>>

RECURSIVE UnpackedAll(_, _)
UnpackedAll(gi, path) ==
    IF path = <<>> THEN <<>> ELSE Unpacked(gi, Head(path)) \o UnpackedAll(gi, Tail(path))

\* unpackPathAndCalculateDistance (routing_base_mld.hpp): the nodes of the
\* unpacked path; `lost` tells that some packed edge is no edge of the graph
unpackPathAndCalculateDistance(gi, packed_path) ==
    [unpacked_nodes |-> <<packed_path[1][1]>> \o UnpackedAll(gi, packed_path),
     lost |-> \E k \in DOMAIN packed_path : ~IsEdge(gi, packed_path[k])]

\* the loops of lines 532-534 and 812-816: all nodes but the last
RECURSIVE Annotation(_, _)
Annotation(g, unpacked_nodes) ==
    IF Len(unpacked_nodes) <= 1 THEN 0
    ELSE computeEdgeDistance(g, Head(unpacked_nodes)) + Annotation(g, Tail(unpacked_nodes))

\* the test of lines 422-423
ZeroedSlot(target_phantom_index, source_phantom_index, phantom_indices) ==
    \/ target_phantom_index = source_phantom_index
    \/ target_phantom_index = source_phantom_index % Len(phantom_indices)

\* lines 457-501: source and target on one segment
SameSegmentDistance(DIRECTION, source_phantom_node, target_phantom_node, distance) ==
    IF DIRECTION = FORWARD_DIRECTION
    THEN IF /\ IsValidForwardSource(source_phantom_node)
            /\ IsValidForwardTarget(target_phantom_node)
            /\ GetForwardDistance(target_phantom_node)
                 > GetForwardDistance(source_phantom_node)
         THEN GetForwardDistance(target_phantom_node)
                - GetForwardDistance(source_phantom_node)
         ELSE IF /\ IsValidReverseSource(source_phantom_node)
                 /\ IsValidReverseTarget(target_phantom_node)
         THEN GetReverseDistance(target_phantom_node)
                - GetReverseDistance(source_phantom_node)
         ELSE distance
    ELSE IF /\ IsValidForwardTarget(source_phantom_node)
            /\ IsValidForwardSource(target_phantom_node)
            /\ GetForwardDistance(source_phantom_node)
                 > GetForwardDistance(target_phantom_node)
         THEN GetForwardDistance(source_phantom_node)
                - GetForwardDistance(target_phantom_node)
         ELSE IF /\ IsValidReverseTarget(source_phantom_node)
                 /\ IsValidReverseSource(target_phantom_node)
         THEN GetReverseDistance(source_phantom_node)
                - GetReverseDistance(target_phantom_node)
         ELSE distance

\* one turn of the loop of lines 419-548: [distance, lost]
OneToManySlotDistance(target_phantom_index, packed_path) ==
    LET source_phantom_node == Phantom(Head(frame.source_indices))
        target_phantom_node == Phantom(frame.target_indices[target_phantom_index + 1])
        distance == distances_table[target_phantom_index + 1]
        annotated(unpacked) ==
            [distance |-> AddDistance(distance,
                                      Annotation(Facade, unpacked.unpacked_nodes)),
             lost |-> unpacked.lost]
    IN IF packed_path = <<>>
       THEN [distance |-> SameSegmentDistance(frame.DIRECTION, source_phantom_node,
                                              target_phantom_node, distance),
             lost |-> FALSE]
       ELSE annotated(unpackPathAndCalculateDistance(request.facade, packed_path))

OneToManyDistance ==
    /\ pc = "o2m_distances"
    /\ column_idx < Len(frame.target_indices)
    /\ LET target_node_id == middle_nodes_table[column_idx + 1]
           zeroed == ZeroedSlot(column_idx, Head(frame.source_indices),
                                frame.target_indices)
           \* the heap has no entry for SPECIAL_NODEID: reading its parent is
           \* undefined; the walk may see a node that is its own parent
           wild == ~zeroed /\ target_node_id = SPECIAL_NODEID
           packed_path ==
               IF wild THEN <<>>
               ELSE Reverse(retrievePackedPathFromSingleManyToManyHeap(
                                frame.DIRECTION, query_heap, target_node_id))
       IN \E slot \in {IF zeroed THEN [distance |-> 0, lost |-> FALSE]
                       ELSE OneToManySlotDistance(column_idx, packed_path)} :
          \E undefined \in {IF wild THEN "read of the heap entry of no node"
                            \* lines 513-514: no InitializeOrClear call of this
                            \* search has set forward_heap_1 and reverse_heap_1
                            ELSE IF /\ ~zeroed /\ packed_path # <<>>
                                    /\ engine_working_data.forward_heap_1 # call.n
                            THEN "dereference of a heap that was not initialized"
                            ELSE IF ~zeroed /\ slot.lost
                            THEN "unpacking of an edge that is not in the graph"
                            ELSE "none"} :
          \E outcome \in IF undefined = "none" THEN {"goes on"}
                         ELSE {"goes on", "aborts"} :
            /\ fault' = IF undefined = "none" THEN fault ELSE undefined
            /\ distances_table' =
                  [distances_table EXCEPT ![column_idx + 1] =
                      IF zeroed THEN 0 ELSE slot.distance]
            /\ pc' = IF outcome = "aborts" THEN "aborted"
                     ELSE IF column_idx + 1 = Len(frame.target_indices)
                     THEN "o2m_return" ELSE "o2m_distances"
            /\ column_idx' = column_idx + 1
    /\ UNCHANGED <<request, engine_working_data,
                   plan, call, frame, query_heap, settled, weights_table,
                   durations_table, middle_nodes_table, target_nodes_index,
                   search_space_with_buckets, row_idx, result, first>>

\* lines 828-870: the offsets of the two phantoms
OffsetAdjusted(DIRECTION, source_phantom, target_phantom, source, target, annotation) ==
    LET sign == IF DIRECTION = FORWARD_DIRECTION THEN 1 ELSE -1
        at_source == IF source_phantom.forward_segment_id.id = source
                     THEN GetForwardDistance(source_phantom)
                     ELSE IF source_phantom.reverse_segment_id.id = source
                     THEN GetReverseDistance(source_phantom)
                     ELSE 0
        at_target == IF target_phantom.forward_segment_id.id = target
                     THEN GetForwardDistance(target_phantom)
                     ELSE IF target_phantom.reverse_segment_id.id = target
                     THEN GetReverseDistance(target_phantom)
                     ELSE 0
    IN annotation - sign * at_source + sign * at_target

\* one turn of the loop of calculateDistances (lines 695-876): [distance, lost]
TableDistance(DIRECTION, source_index, target_index, middle_node_id, column) ==
    LET source_phantom == Phantom(source_index)
        target_phantom == Phantom(target_index)
        from_source == Reverse(retrievePackedPathFromSingleManyToManyHeap(
                                   DIRECTION, query_heap, middle_node_id))
        to_target == retrievePackedPathFromSearchSpace(middle_node_id, column,
                                                       search_space_with_buckets)
        packed_path == from_source \o to_target.path
        annotated(unpacked) ==
            LET unpacked_nodes == IF DIRECTION = FORWARD_DIRECTION
                                  THEN unpacked.unpacked_nodes
                                  ELSE Reverse(unpacked.unpacked_nodes)
                source == Head(unpacked.unpacked_nodes)
                target == unpacked.unpacked_nodes[Len(unpacked.unpacked_nodes)]
            IN [distance |-> OffsetAdjusted(DIRECTION, source_phantom, target_phantom,
                                            source, target,
                                            Annotation(Facade, unpacked_nodes)),
                lost |-> to_target.lost \/ unpacked.lost]
    IN IF source_index = target_index THEN [distance |-> 0, lost |-> FALSE]
       ELSE IF middle_node_id = SPECIAL_NODEID
       THEN [distance |-> INVALID_EDGE_DISTANCE, lost |-> FALSE]
       ELSE IF packed_path = <<>>
       THEN [distance |->
                IF GetForwardDistance(target_phantom) > GetForwardDistance(source_phantom)
                THEN GetForwardDistance(target_phantom)
                       - GetForwardDistance(source_phantom)
                ELSE GetReverseDistance(target_phantom)
                       - GetReverseDistance(source_phantom),
             lost |-> to_target.lost]
       ELSE annotated(unpackPathAndCalculateDistance(request.facade, packed_path))

\* line 965 and one turn of calculateDistances (lines 677-877)
calculateDistances ==
    /\ pc = "m2m_distances"
    /\ column_idx < Len(frame.target_indices)
    /\ LET number_of_sources == Len(frame.source_indices)
           number_of_targets == Len(frame.target_indices)
           resized == IF distances_table = <<>>
                      THEN Filled(number_of_sources * number_of_targets,
                                  INVALID_EDGE_DISTANCE)
                      ELSE distances_table
           location == Location(frame.DIRECTION, row_idx, column_idx,
                                number_of_sources, number_of_targets)
           last == column_idx + 1 = number_of_targets
       IN \E entry \in {TableDistance(frame.DIRECTION,
                                      frame.source_indices[row_idx + 1],
                                      frame.target_indices[column_idx + 1],
                                      middle_nodes_table[location + 1], column_idx)} :
          \E outcome \in IF entry.lost THEN {"goes on", "aborts"} ELSE {"goes on"} :
            /\ fault' = IF entry.lost
                        THEN "unpacking of an edge that is not in the graph" ELSE fault
            /\ distances_table' = [resized EXCEPT ![location + 1] = entry.distance]
            /\ pc' = IF outcome = "aborts" THEN "aborted"
                     ELSE IF last THEN "m2m_row" ELSE "m2m_distances"
            /\ column_idx' = IF last THEN 0 ELSE column_idx + 1
            /\ row_idx' = IF last THEN row_idx + 1 ELSE row_idx
    /\ engine_working_data' = [engine_working_data EXCEPT !.forward_heap_1 = call.n]
    /\ UNCHANGED <<request, plan, call, frame, query_heap, settled, weights_table,
                   durations_table, middle_nodes_table, target_nodes_index,
                   search_space_with_buckets, result, first>>

\* the caller's second call
NextCall ==
    /\ pc = "returned"
    /\ call.n = 1
    /\ plan # "search"
    /\ first' = result
    /\ call' = [n |-> 2,
                entry |-> IF plan = "drivers" THEN "reverse" ELSE "search",
                source_indices |-> request.target_indices,
                target_indices |-> request.source_indices]
    /\ pc' = "call"
    /\ UNCHANGED <<request, engine_working_data,
                   plan, frame, query_heap, settled, tables, target_nodes_index,
                   search_space_with_buckets, row_idx, column_idx, result, fault>>

Next ==
    \/ manyToManySearch
    \/ CallDriver
    \/ OneToManyStart
    \/ OneToManyStep
    \/ OneToManyLoopEnd
    \/ OneToManyReturn
    \/ ManyToManyStart
    \/ BackwardSearchStart
    \/ backwardRoutingStep
    \/ SortBuckets
    \/ ForwardSearchStart
    \/ forwardRoutingStep
    \/ ManyToManyReturn
    \/ OneToManyDistance
    \/ calculateDistances
    \/ NextCall

Spec == Init /\ [][Next]_vars

(***************************************************************************)
(* The reference matrix: shortest paths from snap to snap on the base      *)
(* graph, by (weight, duration).                                           *)
(***************************************************************************)
AllPairs ==
    Stored([gi \in DOMAIN Facades |->
        ShortestInside(Facades[gi], Nodes(Facades[gi]) \ Facades[gi].excluded)])

\* the best walk of at least one edge from u to v
LeastWalk(gi, u, v) ==
    LET g == Facades[gi]
        D == AllPairs[gi]
    IN LexMin({Unreachable} \cup
              {<<D[PairIndex(g, u, g.base[i].from)][1] + g.base[i].weight,
                 D[PairIndex(g, u, g.base[i].from)][2] + g.base[i].duration>> :
                   i \in {j \in DOMAIN g.base :
                            /\ g.base[j].to = v
                            /\ v \notin g.excluded
                            /\ D[PairIndex(g, u, g.base[j].from)] # Unreachable}})

SourceHalves(p) ==
    (IF IsValidForwardSource(p)
     THEN {[node |-> p.forward_segment_id.id, weight |-> GetForwardWeightPlusOffset(p),
            duration |-> GetForwardDuration(p), distance |-> GetForwardDistance(p)]}
     ELSE {})
    \cup
    (IF IsValidReverseSource(p)
     THEN {[node |-> p.reverse_segment_id.id, weight |-> GetReverseWeightPlusOffset(p),
            duration |-> GetReverseDuration(p), distance |-> GetReverseDistance(p)]}
     ELSE {})

TargetHalves(p) ==
    (IF IsValidForwardTarget(p)
     THEN {[node |-> p.forward_segment_id.id, weight |-> GetForwardWeightPlusOffset(p),
            duration |-> GetForwardDuration(p), distance |-> GetForwardDistance(p)]}
     ELSE {})
    \cup
    (IF IsValidReverseTarget(p)
     THEN {[node |-> p.reverse_segment_id.id, weight |-> GetReverseWeightPlusOffset(p),
            duration |-> GetReverseDuration(p), distance |-> GetReverseDistance(p)]}
     ELSE {})

\* from the point `h.weight` along h.node to the point `k.weight` along k.node:
\* along the segment when the target lies ahead on it, else over the edges
ReferencePair(gi, s, t) ==
    LexMin({Unreachable}
           \cup {<<k.weight - h.weight, k.duration - h.duration>> :
                   <<h, k>> \in {x \in SourceHalves(s) \X TargetHalves(t) :
                                   /\ x[1].node = x[2].node
                                   /\ x[2].weight >= x[1].weight}}
           \cup {<<LeastWalk(gi, x[1].node, x[2].node)[1] - x[1].weight + x[2].weight,
                   LeastWalk(gi, x[1].node, x[2].node)[2] - x[1].duration + x[2].duration>> :
                   x \in {y \in SourceHalves(s) \X TargetHalves(t) :
                            LeastWalk(gi, y[1].node, y[2].node) # Unreachable}})

\* the sources and the targets the running call asks for; the reverse driver
\* takes them swapped
Sources == IF call.entry = "reverse" THEN call.target_indices ELSE call.source_indices
Targets == IF call.entry = "reverse" THEN call.source_indices ELSE call.target_indices

ReferenceDuration(i, j) ==
    ReferencePair(request.facade, Phantom(Sources[i + 1]), Phantom(Targets[j + 1]))[2]

\* the entry of the returned duration matrix for source i and target j
Returned(i, j) == result.durations[i * Len(Targets) + j + 1]

\* the node sequence of the best walk of at least one edge from u to v
WalkPath(gi, u, v) ==
    LET g == Facades[gi]
        D == AllPairs[gi]
        best == LeastWalk(gi, u, v)
        preds == {i \in DOMAIN g.base :
                    /\ g.base[i].to = v
                    /\ D[PairIndex(g, u, g.base[i].from)] # Unreachable
                    /\ D[PairIndex(g, u, g.base[i].from)][1] + g.base[i].weight = best[1]
                    /\ D[PairIndex(g, u, g.base[i].from)][2] + g.base[i].duration = best[2]}
        i == CHOOSE j \in preds : \A m \in preds : j <= m
    IN Append(PathInside(g, Nodes(g) \ g.excluded, D, u, g.base[i].from), v)

\* the ways from snap to snap: along one segment (nothing to unpack) or over
\* edges, with the distance of each
ReferenceOptions(gi, s, t) ==
    {[weight |-> x[2].weight - x[1].weight, duration |-> x[2].duration - x[1].duration,
      distance |-> x[2].distance - x[1].distance, unpacked |-> FALSE] :
        x \in {y \in SourceHalves(s) \X TargetHalves(t) :
                 y[1].node = y[2].node /\ y[2].weight >= y[1].weight}}
    \cup
    {[weight |-> LeastWalk(gi, x[1].node, x[2].node)[1] - x[1].weight + x[2].weight,
      duration |-> LeastWalk(gi, x[1].node, x[2].node)[2] - x[1].duration + x[2].duration,
      distance |-> Annotation(Facades[gi], WalkPath(gi, x[1].node, x[2].node))
                     - x[1].distance + x[2].distance,
      unpacked |-> TRUE] :
        x \in {y \in SourceHalves(s) \X TargetHalves(t) :
                 LeastWalk(gi, y[1].node, y[2].node) # Unreachable}}

BestOptions(gi, s, t) ==
    {x \in ReferenceOptions(gi, s, t) :
        \A y \in ReferenceOptions(gi, s, t) :
           ~LexLess(y.weight, y.duration, x.weight, x.duration)}

ReferenceBest(i, j) ==
    BestOptions(request.facade, Phantom(Sources[i + 1]), Phantom(Targets[j + 1]))

\* the cells of the returned matrices, by source and target position
Rows == 0..(Len(Sources) - 1)
Columns == 0..(Len(Targets) - 1)
Cell(i, j) == i * Len(Targets) + j + 1
ReturnedDistance(i, j) == result.distances[Cell(i, j)]

Done == pc = "returned"

(***************************************************************************)
(* Properties.                                                             *)
(***************************************************************************)
\* C1: the dispatcher picks its driver from the two list lengths alone, in
\* this order: one source -> forward one-to-many on (source, targets); else
\* one target -> reverse one-to-many seeded with the target, the sources as
\* slots; else fewer targets than sources -> reverse many-to-many on the
\* swapped lists; else forward many-to-many.
DispatchPrecedence ==
    (pc # "call" /\ call.entry = "search") =>
        LET S == call.source_indices
            T == call.target_indices
        IN frame =
             IF Len(S) = 1
             THEN [driver |-> "oneToManySearch", DIRECTION |-> FORWARD_DIRECTION,
                   source_indices |-> <<S[1]>>, target_indices |-> T]
             ELSE IF Len(T) = 1
             THEN [driver |-> "oneToManySearch", DIRECTION |-> REVERSE_DIRECTION,
                   source_indices |-> <<T[1]>>, target_indices |-> S]
             ELSE IF Len(T) < Len(S)
             THEN [driver |-> "manyToManySearch", DIRECTION |-> REVERSE_DIRECTION,
                   source_indices |-> T, target_indices |-> S]
             ELSE [driver |-> "manyToManySearch", DIRECTION |-> FORWARD_DIRECTION,
                   source_indices |-> S, target_indices |-> T]

\* one source and one target: the forward one-to-many driver has run
DispatchedSingleSingle ==
    /\ Done /\ call.entry = "search"
    /\ Len(call.source_indices) = 1 /\ Len(call.target_indices) = 1
    /\ frame.driver = "oneToManySearch" /\ frame.DIRECTION = FORWARD_DIRECTION

\* C2: every duration returned by the top-level search for a reachable pair is
\* the duration of the (weight, duration)-least path from the source snap to
\* the target snap, whichever driver ran.
DurationsMatchReference ==
    (Done /\ call.entry = "search") =>
        \A i \in Rows, j \in Columns :
            ReferenceBest(i, j) # {} => Returned(i, j) = ReferenceDuration(i, j)

\* C3: a pair with no path gets duration MAXIMAL_EDGE_DURATION and, when
\* distances are requested, distance INVALID_EDGE_DISTANCE, in both drivers.
UnreachableSentinels ==
    (Done /\ call.entry = "search") =>
        \A i \in Rows, j \in Columns :
            ReferenceBest(i, j) = {} =>
                /\ Returned(i, j) = MAXIMAL_EDGE_DURATION
                /\ request.calculate_distance =>
                     ReturnedDistance(i, j) = INVALID_EDGE_DISTANCE

\* C4: without calculate_distance the returned distance array is empty,
\* whichever driver ran.
NoDistancesUnlessWanted ==
    (Done /\ ~request.calculate_distance) => result.distances = <<>>

\* C5: with distances requested, the zero rule fires for a cell exactly when
\* the cell's source and target are the same index into the phantom array; a
\* cell of equal indices returns distance 0.
ZeroExactlyOnEqualIndices ==
    /\ (pc = "o2m_distances" /\ column_idx < Len(frame.target_indices)) =>
          (ZeroedSlot(column_idx, Head(frame.source_indices), frame.target_indices)
             <=> frame.target_indices[column_idx + 1] = Head(frame.source_indices))
    /\ (Done /\ request.calculate_distance) =>
          \A i \in Rows, j \in Columns :
              Sources[i + 1] = Targets[j + 1] => ReturnedDistance(i, j) = 0

\* C6: in both directions of the many-to-many driver the value of the caller's
\* source i and target j lies at i * |T| + j: the driver's location of
\* (row, column) is that position, lies inside the tables and is taken by no
\* other (row, column); the returned durations are laid out accordingly.
ResultLayout ==
    (frame.driver = "manyToManySearch" /\ pc # "call") =>
        LET number_of_sources == Len(frame.source_indices)
            number_of_targets == Len(frame.target_indices)
            at(r, c) == Location(frame.DIRECTION, r, c,
                                 number_of_sources, number_of_targets)
            rows == 0..(number_of_sources - 1)
            columns == 0..(number_of_targets - 1)
        IN /\ \A r \in rows, c \in columns :
                /\ at(r, c) = IF frame.DIRECTION = FORWARD_DIRECTION
                              THEN r * Len(Targets) + c
                              ELSE c * Len(Targets) + r
                /\ at(r, c) \in 0..(number_of_sources * number_of_targets - 1)
                /\ \A r2 \in rows, c2 \in columns :
                      at(r, c) = at(r2, c2) => (r = r2 /\ c = c2)
           /\ Done =>
                /\ Len(result.durations) = Len(Sources) * Len(Targets)
                /\ \A i \in Rows, j \in Columns :
                      result.durations[i * Len(Targets) + j + 1]
                        = ReferenceDuration(i, j)

\* the reverse driver has returned a 3 x 2 matrix that is not constant
ReverseLayoutSeen ==
    /\ Done /\ call.entry = "search"
    /\ frame.driver = "manyToManySearch" /\ frame.DIRECTION = REVERSE_DIRECTION
    /\ Len(Sources) = 3 /\ Len(Targets) = 2
    /\ \E i \in Rows, j \in Columns :
          /\ Returned(i, j) # Returned(0, 0)
          /\ Returned(i, j) # MAXIMAL_EDGE_DURATION

\* C7: for |S| = |T| >= 2 the forward many-to-many driver on (S, T) and the
\* reverse many-to-many driver on (T, S) return the same duration for every
\* (source, target) pair.
DriversAgree ==
    (plan = "drivers" /\ call.n = 2 /\ Done) =>
        \A i \in 0..(Len(request.source_indices) - 1),
           j \in 0..(Len(request.target_indices) - 1) :
            first.durations[i * Len(request.target_indices) + j + 1]
              = result.durations[i * Len(request.target_indices) + j + 1]

\* both drivers have returned, with a pair whose two directions differ
DriversCompared ==
    /\ plan = "drivers" /\ call.n = 2 /\ Done
    /\ Len(request.source_indices) >= 2
    /\ Len(request.source_indices) = Len(request.target_indices)
    /\ frame.DIRECTION = REVERSE_DIRECTION
    /\ \E i \in Rows, j \in Columns :
          /\ Returned(i, j) # MAXIMAL_EDGE_DURATION
          /\ Returned(i, j) # 0
          /\ first.durations[Cell(i, j)] = Returned(i, j)

\* C8: a phantom with no valid half in the role the search needs has its row
\* (as a source) or column (as a target) filled with MAXIMAL_EDGE_DURATION
\* and, when distances are requested, INVALID_EDGE_DISTANCE.
InvalidPhantomSentinels ==
    (Done /\ call.entry = "search") =>
        \A i \in Rows, j \in Columns :
            (\/ SourceHalves(Phantom(Sources[i + 1])) = {}
             \/ TargetHalves(Phantom(Targets[j + 1])) = {}) =>
                /\ Returned(i, j) = MAXIMAL_EDGE_DURATION
                /\ request.calculate_distance =>
                     ReturnedDistance(i, j) = INVALID_EDGE_DISTANCE

\* C9: with distances requested, a pair whose best path runs over edges gets
\* the snap-to-snap distance: the lengths along the unpacked path, less the
\* source phantom's distance offset, plus the target phantom's, in the
\* one-to-many driver as in the many-to-many driver.
SnapToSnapDistance ==
    (Done /\ call.entry = "search" /\ request.calculate_distance) =>
        \A i \in Rows, j \in Columns :
            (ReferenceBest(i, j) # {} /\ \A x \in ReferenceBest(i, j) : x.unpacked) =>
                \E x \in ReferenceBest(i, j) : ReturnedDistance(i, j) = x.distance

\* the duration offset of a phantom snapped onto one segment only
SnapOffset(k) == GetForwardDuration(Phantom(k))

\* two phantoms that are one, or lie on one half each on different segments
Apart(a, b) ==
    \/ a = b
    \/ /\ ~Phantom(a).reverse_segment_id.enabled
       /\ ~Phantom(b).reverse_segment_id.enabled
       /\ Phantom(a).forward_segment_id.id # Phantom(b).forward_segment_id.id

ReturnedWeight(i, j) == weights_table[Cell(i, j)]

\* a phantom with one half only
OneHalf(k) ==
    ~(Phantom(k).forward_segment_id.enabled /\ Phantom(k).reverse_segment_id.enabled)

\* every edge takes as long as it weighs
DurationIsWeight(g) == \A i \in DOMAIN g.base : g.base[i].duration = g.base[i].weight

\* the triples (a, b, c) of one returned matrix: b is a source and a target,
\* and the three results are finite
Triples ==
    {x \in Rows \X Rows \X Columns \X Columns :
        /\ Sources[x[2] + 1] = Targets[x[3] + 1]
        /\ Returned(x[1], x[4]) # MAXIMAL_EDGE_DURATION
        /\ Returned(x[1], x[3]) # MAXIMAL_EDGE_DURATION
        /\ Returned(x[2], x[4]) # MAXIMAL_EDGE_DURATION}

\* C11 (as stated): for phantoms a, b, c with finite pairwise results,
\* duration[a, c] <= duration[a, b] + duration[b, c], also where durations
\* differ from weights.
TriangleInequality ==
    Done => \A x \in Triples :
                Returned(x[1], x[4]) <= Returned(x[1], x[3]) + Returned(x[2], x[4])

\* C11 (amended): when b is snapped onto one segment half only, the weights
\* behind the returned durations satisfy weight[a, c] <= weight[a, b] +
\* weight[b, c], and the durations do so on a graph whose every edge takes as
\* long as it weighs.
TriangleInequalityOfWeights ==
    Done => \A x \in Triples :
                OneHalf(Sources[x[2] + 1]) =>
                    /\ ReturnedWeight(x[1], x[4])
                         <= ReturnedWeight(x[1], x[3]) + ReturnedWeight(x[2], x[4])
                    /\ DurationIsWeight(Facade) =>
                         Returned(x[1], x[4])
                           <= Returned(x[1], x[3]) + Returned(x[2], x[4])

\* a matrix with three different phantoms a, b, c, b on one half, where the
\* way over b weighs more than the way returned and takes less time
TriangleCompared ==
    /\ Done
    /\ \E x \in Triples :
         /\ OneHalf(Sources[x[2] + 1])
         /\ Sources[x[1] + 1] # Sources[x[2] + 1]
         /\ Targets[x[4] + 1] # Sources[x[2] + 1]
         /\ Sources[x[1] + 1] # Targets[x[4] + 1]
         /\ ReturnedWeight(x[1], x[4])
              < ReturnedWeight(x[1], x[3]) + ReturnedWeight(x[2], x[4])
         /\ Returned(x[1], x[4]) > Returned(x[1], x[3]) + Returned(x[2], x[4])

\* C12: between two clears of the query heap Insert is called at most once
\* per node: the heap never holds two entries of one node.
InsertedOnce ==
    \A i, j \in DOMAIN query_heap.inserted_nodes :
        query_heap.inserted_nodes[i].node = query_heap.inserted_nodes[j].node => i = j

\* C13: in every state of either driver each entry of the weight table is
\* INVALID_EDGE_WEIGHT or at least 0: a candidate of negative weight is never
\* written, better than the cell or not.
WeightsNotNegative ==
    \A i \in DOMAIN weights_table :
        weights_table[i] = INVALID_EDGE_WEIGHT \/ weights_table[i] >= 0

\* the one-to-many loop has popped a node and examined a candidate of it whose
\* weight is negative and lexicographically better than the cell
NegativeCandidateDiscarded ==
    /\ pc = "o2m_loop"
    /\ \E c \in target_nodes_index : \E i \in DOMAIN query_heap.inserted_nodes :
          LET e == query_heap.inserted_nodes[i]
          IN /\ e.node = c.node
             /\ i \notin query_heap.queue
             /\ e.weight + c.weight < 0
             /\ LexLess(e.weight + c.weight, e.data.duration + c.duration,
                        weights_table[c.index + 1], durations_table[c.index + 1])

\* C14: with seeds that are not excluded, no excluded node is ever inserted
\* into the query heap, so none is ever popped and handed to
\* relaxOutgoingEdges.
NoExcludedNodeInHeap ==
    \A i \in DOMAIN query_heap.inserted_nodes :
        ~ExcludeNode(Facade, query_heap.inserted_nodes[i].node)

\* the bucket store is in the order of NodeBucket::operator<
BucketsSorted ==
    \A i, j \in DOMAIN search_space_with_buckets :
        i < j => ~BucketLess(search_space_with_buckets[j], search_space_with_buckets[i])

\* the phases of the many-to-many driver that follow the sort
AfterSort == pc \in {"m2m_row", "m2m_forward", "m2m_distances"}

\* the nodes a backward search of a column starts from
ColumnSeeds(column) ==
    LET p == Phantom(frame.target_indices[column + 1])
    IN {h.node : h \in IF frame.DIRECTION = FORWARD_DIRECTION
                       THEN TargetHalves(p) ELSE SourceHalves(p)}

\* every column has been searched: its seeds have their buckets
AllColumnsSearched ==
    \A column \in 0..(Len(frame.target_indices) - 1) :
        \A node \in ColumnSeeds(column) :
            \E k \in DOMAIN search_space_with_buckets :
                /\ search_space_with_buckets[k].middle_node = node
                /\ search_space_with_buckets[k].column_index = column

\* C15: in the many-to-many driver a backward search is left only with an
\* empty heap; from the first forward search on, the bucket store is sorted by
\* (node, column) and holds the search of every column, and no forward step
\* and no distance calculation changes it.
PhasesOrdered ==
    /\ [](AfterSort => BucketsSorted /\ AllColumnsSearched)
    /\ [][/\ (pc = "m2m_backward" /\ pc' # "m2m_backward") => Empty(query_heap')
          /\ AfterSort => search_space_with_buckets' = search_space_with_buckets]_vars

\* forward searches and a distance calculation have run over a store that
\* holds the buckets of two columns on one node
ForwardAfterBackward ==
    /\ pc = "m2m_distances"
    /\ row_idx >= 1
    /\ \E i, j \in DOMAIN search_space_with_buckets :
          /\ search_space_with_buckets[i].middle_node
               = search_space_with_buckets[j].middle_node
          /\ search_space_with_buckets[i].column_index
               # search_space_with_buckets[j].column_index

\* the buckets of a node in a column
BucketsOf(node, column) ==
    {k \in DOMAIN search_space_with_buckets :
        /\ search_space_with_buckets[k].middle_node = node
        /\ search_space_with_buckets[k].column_index = column}

\* C16: the bucket store holds at most one bucket per (node, column), and for
\* every result cell with a recorded meeting node the lookup of that node in
\* the cell's column finds exactly one bucket.
OneBucketPerNodeAndColumn ==
    /\ \A i, j \in DOMAIN search_space_with_buckets :
          (/\ search_space_with_buckets[i].middle_node
                = search_space_with_buckets[j].middle_node
           /\ search_space_with_buckets[i].column_index
                = search_space_with_buckets[j].column_index) => i = j
    /\ AfterSort =>
          \A row \in 0..(Len(frame.source_indices) - 1),
             column \in 0..(Len(frame.target_indices) - 1) :
              LET location == Location(frame.DIRECTION, row, column,
                                       Len(frame.source_indices),
                                       Len(frame.target_indices))
                  middle_node_id == middle_nodes_table[location + 1]
              IN middle_node_id # SPECIAL_NODEID =>
                   Cardinality(BucketsOf(middle_node_id, column)) = 1

\* the distance calculation looks up a meeting node that a backward search
\* reached over an improved key, on a node that holds buckets of two columns
MeetingNodeLookedUp ==
    /\ pc = "m2m_distances"
    /\ \E row \in 0..(Len(frame.source_indices) - 1),
          column \in 0..(Len(frame.target_indices) - 1) :
          LET location == Location(frame.DIRECTION, row, column,
                                   Len(frame.source_indices),
                                   Len(frame.target_indices))
              middle_node_id == middle_nodes_table[location + 1]
          IN /\ middle_node_id # SPECIAL_NODEID
             /\ \E k \in BucketsOf(middle_node_id, column) :
                   search_space_with_buckets[k].parent_node # middle_node_id
             /\ \E other \in 0..(Len(frame.target_indices) - 1) :
                   other # column /\ BucketsOf(middle_node_id, other) # {}

\* C17: no two shortcuts are taken in a row: a node whose heap data says
\* from_clique_arc has a parent whose heap data does not, and so has every
\* bucket, whose parent is found in the same column.
NoTwoShortcutsInARow ==
    /\ \A node \in DOMAIN query_heap.node_index :
          GetData(query_heap, node).from_clique_arc =>
              ~GetData(query_heap, GetData(query_heap, node).parent).from_clique_arc
    /\ \A k \in DOMAIN search_space_with_buckets :
          search_space_with_buckets[k].from_clique_arc =>
              \A j \in BucketsOf(search_space_with_buckets[k].parent_node,
                                 search_space_with_buckets[k].column_index) :
                  ~search_space_with_buckets[j].from_clique_arc

\* a forward search of the many-to-many driver has popped a node that was
\* reached over a shortcut and has shortcuts of its own at its query level
ShortcutNotFollowed ==
    /\ pc \in {"m2m_forward", "m2m_distances"}
    /\ \E node \in DOMAIN query_heap.node_index :
          LET level == getNodeQueryLevel(Facade, node,
                                         Phantom(frame.source_indices[row_idx + 1]))
          IN /\ query_heap.node_index[node] \notin query_heap.queue
             /\ GetData(query_heap, node).from_clique_arc
             /\ level # INVALID_LEVEL_ID
             /\ level >= 1
             /\ ShortcutCandidates(request.facade, frame.DIRECTION, level, node,
                                   GetKey(query_heap, node),
                                   GetData(query_heap, node).duration) # <<>>

\* C19: within one search the keys of successively popped nodes never
\* decrease, the negative seeds of the one-to-many driver and the nodes it
\* enters next to a seed included.
PoppedKeysNonDecreasing ==
    \A k \in 1..(Len(settled) - 1) : settled[k].weight <= settled[k + 1].weight

\* the candidates that the relaxation of a popped node produces (lines
\* 108-204), from what the pop has read
RelaxationCandidates(r) ==
    IF r.level = INVALID_LEVEL_ID THEN <<>>
    ELSE (IF r.level >= 1 /\ ~r.from_clique_arc
          THEN ShortcutCandidates(request.facade, r.DIRECTION, r.level, r.node,
                                  r.weight, r.duration)
          ELSE <<>>)
         \o BorderCandidates(request.facade, r.DIRECTION, r.level, r.node,
                             r.weight, r.duration)

\* C18: the (key, duration) pair a node holds when it is popped is the
\* lexicographic minimum over the candidates that the relaxations of the
\* search produce for it, and no relaxation after the pop changes its key,
\* duration, parent or from_clique_arc flag.
SettledIsFinal ==
    /\ \A k, j \in DOMAIN settled :
          \A n \in DOMAIN RelaxationCandidates(settled[j]) :
              RelaxationCandidates(settled[j])[n].to = settled[k].node =>
                  ~LexLess(RelaxationCandidates(settled[j])[n].weight,
                           RelaxationCandidates(settled[j])[n].duration,
                           settled[k].weight, settled[k].duration)
    /\ \A k \in DOMAIN settled :
          /\ GetKey(query_heap, settled[k].node) = settled[k].weight
          /\ GetData(query_heap, settled[k].node).duration = settled[k].duration
          /\ GetData(query_heap, settled[k].node).parent = settled[k].parent
          /\ GetData(query_heap, settled[k].node).from_clique_arc
               = settled[k].from_clique_arc

\* the candidates a popped node has produced for a node
CandidatesFor(r, node) ==
    {RelaxationCandidates(r)[n] : n \in {m \in DOMAIN RelaxationCandidates(r) :
                                            RelaxationCandidates(r)[m].to = node}}

\* in a search of the many-to-many driver a node was popped with a key that a
\* relaxation had decreased before, and a node popped later has produced one
\* more candidate for a node popped earlier
SettledAndRelaxedAgain ==
    /\ pc \in {"m2m_backward", "m2m_forward", "m2m_distances"}
    /\ \E k, l \in DOMAIN settled :
          k < l /\ CandidatesFor(settled[l], settled[k].node) # {}
    /\ \E i, j, k \in DOMAIN settled :
          /\ i < j /\ j < k
          /\ \E a \in CandidatesFor(settled[i], settled[k].node),
                b \in CandidatesFor(settled[j], settled[k].node) :
                /\ LexLess(b.weight, b.duration, a.weight, a.duration)
                /\ settled[k].weight = b.weight
                /\ settled[k].duration = b.duration
                /\ settled[k].parent = settled[j].node

\* the one-to-many loop and what follows it
InOneToMany == pc \in {"o2m_loop", "o2m_distances", "o2m_return"}

\* C20 (as stated): in the one-to-many driver no entry keyed by a popped node
\* remains in the target index.
PoppedNodeLeavesIndex ==
    InOneToMany =>
        \A k \in DOMAIN settled : \A c \in target_nodes_index :
            c.node # settled[k].node

\* C20 (amended): in the one-to-many driver an entry keyed by a popped node
\* remains in the target index only if the weight of its path, the key of the
\* node plus the entry's offset, is negative; every other examined candidate
\* is erased, committed or not.
PoppedNodeKeepsNegativeOnly ==
    InOneToMany =>
        \A k \in DOMAIN settled : \A c \in target_nodes_index :
            c.node = settled[k].node => settled[k].weight + c.weight < 0

\* the target entries of the running one-to-many search, as built at its start
InitialTargetEntries ==
    UNION {TargetEntries(frame.DIRECTION, Phantom(frame.target_indices[i + 1]), i) :
             i \in 0..(Len(frame.target_indices) - 1)}

\* a popped node has kept an entry of negative path weight, and the entry of
\* another popped node, of a path weight of zero or more, has been erased
EntryKeptAndEntryErased ==
    /\ InOneToMany
    /\ \E k \in DOMAIN settled : \E c \in target_nodes_index :
          c.node = settled[k].node /\ settled[k].weight + c.weight < 0
    /\ \E k \in DOMAIN settled : \E c \in InitialTargetEntries \ target_nodes_index :
          c.node = settled[k].node /\ settled[k].weight + c.weight >= 0

(***************************************************************************)
(* Termination.                                                            *)
(***************************************************************************)
\* the caller has its last result, or the program has stopped on a fault
Finished ==
    \/ pc = "aborted"
    \/ pc = "returned" /\ (plan = "search" \/ call.n = 2)

\* the parent walk of retrievePackedPathFromSingleManyToManyHeap reaches a
\* node that is its own parent within `fuel` steps
RECURSIVE HeapWalkEnds(_, _, _)
HeapWalkEnds(h, current, fuel) ==
    LET parent == GetData(h, current).parent
    IN IF current = parent THEN TRUE
       ELSE IF fuel = 0 THEN FALSE
       ELSE HeapWalkEnds(h, parent, fuel - 1)

\* the parent walks a distance computation starts from the state end: in the
\* heap within as many steps as the heap has entries, in the bucket store at
\* a bucket that is its own parent
ParentWalksEnd ==
    /\ pc = "o2m_distances" =>
          \A i \in DOMAIN middle_nodes_table :
             middle_nodes_table[i] # SPECIAL_NODEID =>
                HeapWalkEnds(query_heap, middle_nodes_table[i],
                             Len(query_heap.inserted_nodes))
    /\ pc = "m2m_distances" =>
          \A c \in 0..(Len(frame.target_indices) - 1) :
             LET middle == middle_nodes_table[
                               Location(frame.DIRECTION, row_idx, c,
                                        Len(frame.source_indices),
                                        Len(frame.target_indices)) + 1]
             IN middle # SPECIAL_NODEID =>
                   /\ HeapWalkEnds(query_heap, middle, Len(query_heap.inserted_nodes))
                   /\ ~retrievePackedPathFromSearchSpace(
                           middle, c, search_space_with_buckets).lost

\* what a search loop has left to do: the entries still in the queue, and
\* for every node not yet inserted the entry it may get and its deletion
LoopMeasure ==
    Cardinality(query_heap.queue)
      + 2 * Cardinality(Nodes(Facade) \ DOMAIN query_heap.node_index)

\* a turn of the one-to-many loop, of a backward loop or of a forward loop
\* that is followed by another turn of the same loop
LoopTurn ==
    /\ pc \in {"o2m_loop", "m2m_backward", "m2m_forward"}
    /\ pc' = pc
    /\ settled' # settled

Seeded == pc = "o2m_loop" /\ settled = <<>>

\* the phantom the one-to-many search starts from
SeedPhantom == Phantom(Head(frame.source_indices))

\* the halves insert_node is called for (lines 346, 354, 364, 372)
ForwardHalfSeeded ==
    IF frame.DIRECTION = FORWARD_DIRECTION
    THEN IsValidForwardSource(SeedPhantom) ELSE IsValidForwardTarget(SeedPhantom)

ReverseHalfSeeded ==
    IF frame.DIRECTION = FORWARD_DIRECTION
    THEN IsValidReverseSource(SeedPhantom) ELSE IsValidReverseTarget(SeedPhantom)

\* the heap has an entry of the node that is its own parent, with this key
\* and this duration
SeedEntry(node, weight, duration) ==
    \E i \in DOMAIN query_heap.inserted_nodes :
       /\ query_heap.inserted_nodes[i].node = node
       /\ query_heap.inserted_nodes[i].weight = weight
       /\ query_heap.inserted_nodes[i].data.parent = node
       /\ query_heap.inserted_nodes[i].data.duration = duration

\* C22 (as stated): in both directions of the one-to-many driver each valid
\* half of the seed phantom has its own heap entry, keyed by the negated
\* weight-plus-offset of the half, with the negated duration of the half.
SeedsNegated ==
    Seeded =>
       /\ ForwardHalfSeeded =>
             SeedEntry(SeedPhantom.forward_segment_id.id,
                       -GetForwardWeightPlusOffset(SeedPhantom),
                       -GetForwardDuration(SeedPhantom))
       /\ ReverseHalfSeeded =>
             SeedEntry(SeedPhantom.reverse_segment_id.id,
                       -GetReverseWeightPlusOffset(SeedPhantom),
                       -GetReverseDuration(SeedPhantom))

\* C22 (amended): each valid half of the seed phantom has its own heap entry;
\* in the forward direction its key is the negated weight-plus-offset and its
\* duration the negated duration of the half, in the reverse direction its
\* key is the weight-plus-offset and its duration the duration of the half.
SeedsSignedByDirection ==
    Seeded =>
       LET sign == IF frame.DIRECTION = FORWARD_DIRECTION THEN -1 ELSE 1
       IN /\ ForwardHalfSeeded =>
                SeedEntry(SeedPhantom.forward_segment_id.id,
                          sign * GetForwardWeightPlusOffset(SeedPhantom),
                          sign * GetForwardDuration(SeedPhantom))
          /\ ReverseHalfSeeded =>
                SeedEntry(SeedPhantom.reverse_segment_id.id,
                          sign * GetReverseWeightPlusOffset(SeedPhantom),
                          sign * GetReverseDuration(SeedPhantom))

\* a reverse one-to-many search has seeded both halves of its phantom, both
\* at an offset that is not zero
BothHalvesSeededInReverse ==
    /\ Seeded
    /\ frame.DIRECTION = REVERSE_DIRECTION
    /\ ForwardHalfSeeded /\ ReverseHalfSeeded
    /\ GetForwardWeightPlusOffset(SeedPhantom) > 0
    /\ GetReverseWeightPlusOffset(SeedPhantom) > 0
    /\ SeedEntry(SeedPhantom.forward_segment_id.id,
                 GetForwardWeightPlusOffset(SeedPhantom),
                 GetForwardDuration(SeedPhantom))
    /\ SeedEntry(SeedPhantom.reverse_segment_id.id,
                 GetReverseWeightPlusOffset(SeedPhantom),
                 GetReverseDuration(SeedPhantom))

(***************************************************************************)
(* The working storage.                                                    *)
(***************************************************************************)
\* the search that is popping from the many-to-many heap
RunningSearch ==
    IF pc = "o2m_loop" THEN <<call.n, "oneToManySearch", 0>>
    ELSE IF pc = "m2m_backward" THEN <<call.n, "backward", column_idx>>
    ELSE <<call.n, "forward", row_idx>>

\* the next step is a turn of a search loop: it pops from query_heap
PopsFromHeap == pc \in {"o2m_loop", "m2m_backward", "m2m_forward"}

\* the next step of the one-to-many distance loop passes forward_heap_1 and
\* reverse_heap_1 to unpackPathAndCalculateDistance (lines 513-529)
OneToManyUnpacks ==
    /\ pc = "o2m_distances"
    /\ column_idx < Len(frame.target_indices)
    /\ ~ZeroedSlot(column_idx, Head(frame.source_indices), frame.target_indices)
    /\ middle_nodes_table[column_idx + 1] # SPECIAL_NODEID
    /\ retrievePackedPathFromSingleManyToManyHeap(
           frame.DIRECTION, query_heap, middle_nodes_table[column_idx + 1]) # <<>>

\* the next step of calculateDistances does (lines 775-791)
ManyToManyUnpacks ==
    /\ pc = "m2m_distances"
    /\ column_idx < Len(frame.target_indices)
    /\ LET middle == middle_nodes_table[
                         Location(frame.DIRECTION, row_idx, column_idx,
                                  Len(frame.source_indices),
                                  Len(frame.target_indices)) + 1]
       IN /\ frame.source_indices[row_idx + 1] # frame.target_indices[column_idx + 1]
          /\ middle # SPECIAL_NODEID
          /\ retrievePackedPathFromSingleManyToManyHeap(
                 frame.DIRECTION, query_heap, middle)
               \o retrievePackedPathFromSearchSpace(
                      middle, column_idx, search_space_with_buckets).path # <<>>

\* C23: every heap of the working storage is initialized or cleared by the
\* running query before it is dereferenced: a step that pops from the
\* many-to-many heap finds it initialized or cleared by the search it belongs
\* to, and a step that passes forward_heap_1 and reverse_heap_1 to the path
\* unpacking, in the one-to-many distance branch or in calculateDistances,
\* has them initialized or cleared by the running call.
HeapsInitializedBeforeUse ==
    [][/\ PopsFromHeap => engine_working_data.many_to_many_heap = RunningSearch
       /\ OneToManyUnpacks \/ ManyToManyUnpacks =>
             engine_working_data'.forward_heap_1 = call.n]_vars

(***************************************************************************)
(* The result arrays of the one-to-many driver.                            *)
(***************************************************************************)
\* the positions distances is written at while the target index is built
\* (lines 245, 254, 266, 275)
DistancePositions ==
    LET writes == AllDistanceWrites(frame.DIRECTION, request.phantom_nodes,
                                    frame.target_indices, 0)
    IN {writes[k][1] : k \in DOMAIN writes}

\* C24: in the one-to-many driver every read and write of weights, durations,
\* distances and target_nodes, all of length |phantom_indices|, is at a
\* position in [0, |phantom_indices|): the writes of distances made while the
\* target index is built, the slots the entries of the target index name, and
\* the slots of the distance loop.
ResultIndicesInRange ==
    /\ pc = "oneToManySearch" =>
          \A position \in DistancePositions :
             0 <= position /\ position < Len(frame.target_indices)
    /\ InOneToMany =>
          /\ Len(weights_table) = Len(frame.target_indices)
          /\ Len(durations_table) = Len(frame.target_indices)
          /\ Len(distances_table) = Len(frame.target_indices)
          /\ Len(middle_nodes_table) = Len(frame.target_indices)
          /\ \A c \in target_nodes_index :
                0 <= c.index /\ c.index < Len(frame.target_indices)
          /\ pc = "o2m_distances" => column_idx <= Len(frame.target_indices)

(***************************************************************************)
(* The parents of the bucket store.                                        *)
(***************************************************************************)
\* the walk of lines 650-663 from a node of a column: every lookup finds the
\* bucket of the node it looks for, and the walk reaches a bucket that is its
\* own parent within `fuel` steps
RECURSIVE WalkStaysInStore(_, _, _, _)
WalkStaysInStore(buckets, column, current, fuel) ==
    LET first_ == LowerBound(buckets, current, column)
    IN /\ first_ <= Len(buckets)
       /\ buckets[first_].middle_node = current
       /\ buckets[first_].column_index = column
       /\ \/ buckets[first_].parent_node = current
          \/ /\ fuel > 0
             /\ WalkStaysInStore(buckets, column, buckets[first_].parent_node, fuel - 1)

\* C25: after the backward phase the bucket store is closed under parents per
\* column: a bucket (n, c) whose parent p is not n has a bucket (p, c) beside
\* it, and the parent links from any bucket lead, in fewer steps than the
\* store has buckets, to a bucket that is its own parent; no lookup of the
\* walk of retrievePackedPathFromSearchSpace has an empty range or is the end
\* of the store.
ParentsClosedPerColumn ==
    AfterSort =>
        \A k \in DOMAIN search_space_with_buckets :
            LET b == search_space_with_buckets[k]
            IN /\ b.parent_node # b.middle_node =>
                     BucketsOf(b.parent_node, b.column_index) # {}
               /\ WalkStaysInStore(search_space_with_buckets, b.column_index,
                                   b.middle_node, Len(search_space_with_buckets) - 1)

\* the store holds the buckets of two columns or more, and in one column a
\* bucket whose parent has a parent of its own
ParentChainInStore ==
    /\ AfterSort
    /\ \E i, j \in DOMAIN search_space_with_buckets :
          search_space_with_buckets[i].column_index
            # search_space_with_buckets[j].column_index
    /\ \E i, j \in DOMAIN search_space_with_buckets :
          /\ search_space_with_buckets[i].column_index
               = search_space_with_buckets[j].column_index
          /\ search_space_with_buckets[i].parent_node
               = search_space_with_buckets[j].middle_node
          /\ search_space_with_buckets[i].parent_node
               # search_space_with_buckets[i].middle_node
          /\ search_space_with_buckets[j].parent_node
               # search_space_with_buckets[j].middle_node

====
